---------------------------- MODULE Spec2Model ----------------------------
(***************************************************************************)
(* The credit-deduction routine deduct_ficore_credits of the budget module *)
(* (src/personal_finance/budget/budget.py) and of the shopping module      *)
(* (src/personal_finance/shopping/shopping.py), run by concurrent requests *)
(* against one document store.                                             *)
(*                                                                         *)
(* Numbers.  Credits are floats in the code.  The model counts in          *)
(* fractions of a credit: one credit is Unit model units, so that a        *)
(* non-integral amount (1.5 credits) and the conversion int(amount) of the *)
(* shopping variant can be told apart.                                     *)
(*                                                                         *)
(* The store.  The code runs its three writes inside a MongoDB multi-      *)
(* document transaction.  The model keeps, per client session, the writes  *)
(* issued with session=... as pending writes that become visible together  *)
(* at commit_transaction and are dropped at abort; a write issued without  *)
(* a session is visible at once.  The store's documented behaviour is      *)
(* modelled: a transaction reads the snapshot taken at its first           *)
(* operation plus its own writes; a write to a document that another open  *)
(* transaction has written, or that changed after the snapshot, fails with *)
(* a WriteConflict carrying the TransientTransactionError label; a server  *)
(* error inside a transaction aborts it on the server, and every later     *)
(* operation of that transaction fails with NoSuchTransaction (also        *)
(* TransientTransactionError); a failed commit leaves nothing visible.     *)
(***************************************************************************)
EXTENDS Integers, Sequences, FiniteSets, TLC

\* Bounds of the model: concurrent calls, model units per credit, the
\* largest starting balance in credits, storage errors injected in a run.
NumCalls == 2
Unit == 2
MaxCredits == 3
MaxFaults == 1

\* shopping.py:98
max_retries == 3

Procs == 1..NumCalls
UserIds == {"u1", "u404", ""}
Registered == {"u1"}
\* The logged-in user of a request (current_user.id).
current_user == "u1"
\* Amounts a call may be given, in model units: -1/Unit, 0, 1, 1 + 1/Unit,
\* 2 and 3 credits.
Amounts == {-1, 0, Unit, Unit + 1, 2 * Unit, 3 * Unit}
Variants == {"budget", "shopping"}
ErrorKinds == {"transient", "permanent"}

(***************************************************************************)
(* users, ledger, audit: the committed collections users (id -> balance),  *)
(*   ficore_credit_transactions and audit_logs.                            *)
(* pc, variant, mongo_session, user_id, amount: where each call stands,    *)
(*   which module's routine it runs, whether the caller passed its own     *)
(*   session, and its arguments; amt is amount after the routine's         *)
(*   conversion, current_balance the balance read for the pre-check,       *)
(*   attempt the retry loop's counter, ret the value returned, outcome the *)
(*   reason the routine logged.                                            *)
(* txn, ended: per call, the transaction of its session (snapshot and      *)
(*   pending writes) and whether the session has been ended.               *)
(* decrements, errs, init_balance, faults record the run's history: the    *)
(*   stored balance before and after each committed decrement of a call,   *)
(*   the exceptions a call met, the starting balances, the injected        *)
(*   storage errors.  Ledger and audit entries carry the call that wrote   *)
(*   them (the code's ObjectId tells them apart).                          *)
(* budgets, creating: the budgets collection (a budget record carries the  *)
(*   request that created it, the code's budget_id), and whether the call  *)
(*   is the one the budget-creation handler makes.                         *)
(* shopping_lists, shopping_items: the collections of the shopping module  *)
(*   (list id -> user_id, status, total_spent; item id -> list_id, name,   *)
(*   cost, where cost stands for price * quantity).                        *)
(* request, work: per request of a delete, export or list handler, the     *)
(*   route with its arguments, how far the handler got and what it sent    *)
(*   back; and what the handler's own transaction sees of the two          *)
(*   collections, with the documents it has written.                       *)
(***************************************************************************)
VARIABLES
    users, ledger, audit,
    pc, variant, mongo_session, user_id, amount, amt, current_balance,
    attempt, ret, outcome,
    txn, ended,
    decrements, errs, init_balance, faults,
    budgets, creating,
    shopping_lists, shopping_items, request, work

store == <<users, ledger, audit>>
locals == <<variant, mongo_session, user_id, amount, amt, current_balance, attempt>>
locals_but_attempt == <<variant, mongo_session, user_id, amount, amt, current_balance>>
control == <<pc, ret, outcome>>
sessions == <<txn, ended>>
history == <<decrements, errs, init_balance>>
shopping == <<shopping_lists, shopping_items, request, work>>
business == <<budgets, creating, shopping>>
vars == <<store, locals, control, sessions, history, faults, business>>

EmptyDocs == [u \in {} |-> 0]
NoTxn == [state |-> "none", snap |-> EmptyDocs, bal |-> EmptyDocs,
          led |-> <<>>, aud |-> <<>>]


(***************************************************************************)
(* Pure helpers of deduct_ficore_credits.                                  *)
(***************************************************************************)

\* shopping.py:68  amount = int(amount): truncation toward zero.
IntOf(a) ==
    IF a >= 0 THEN (a \div Unit) * Unit ELSE -(((-a) \div Unit) * Unit)

\* The amount the routine works with after its conversion.
Converted(v, a) == IF v = "shopping" THEN IntOf(a) ELSE a

\* Mutant of BudgetAmountValid: the check lets zero through.
BudgetAmountNegativeOnly(a) == ~(a < 0)

\* budget.py:79  if amount <= 0: return False
BudgetAmountValid(a) == ~(a <= 0)

\* shopping.py:69  if amount not in [1, 2]: return False
ShoppingAmountValid(a) == a \in {1 * Unit, 2 * Unit}

\* budget.py:74 / shopping.py:74  if not user_id: return False
UserIdGiven(uid) == uid # ""

ArgsValid(v, uid, a) ==
    IF v = "budget"
    THEN UserIdGiven(uid) /\ BudgetAmountValid(a)
    ELSE ShoppingAmountValid(Converted(v, a)) /\ UserIdGiven(uid)

\* Mutant of Sufficient: the pre-check also turns down a balance equal to
\* the amount.
SufficientMoreThan(balance, a) == balance > a

\* budget.py:95 / shopping.py:90  if current_balance < amount: return False
Sufficient(balance, a) == ~(balance < a)

\* budget.py:106 {'$inc': -amount} / shopping.py:106 $subtract, applied by
\* the store to the value the transaction sees.
Decrement(balance, a) == balance - a

\* budget.py:110 / shopping.py:110  result.modified_count: the store counts
\* a matched document as modified only when the update changed it.
Modified(old, new) == old # new

owns_session(p) == ~mongo_session[p]

\* The session each write is issued on (the session= argument):
\* budget.py:139,153 and shopping.py:139,153 pass the session.
NoSession == 0

\* Mutant of LedgerSession: the ledger insert is issued without session=.
LedgerWithoutSession(p) == NoSession

LedgerSession(p) == p

\* Mutant of AuditSession: the audit insert is issued without session=.
AuditWithoutSession(p) == NoSession

AuditSession(p) == p

CompletedEntry(p) ==
    [call |-> p, user_id |-> user_id[p], amount |-> -amt[p], status |-> "completed"]
FailedEntry(p) ==
    [call |-> p, user_id |-> user_id[p], amount |-> -amt[p], status |-> "failed"]
AuditEntry(p) ==
    [call |-> p, user_id |-> user_id[p], amount |-> amt[p],
     previous_balance |-> current_balance[p],
     new_balance |-> current_balance[p] - amt[p]]

(***************************************************************************)
(* The store: what a session sees, and when a write conflicts.             *)
(***************************************************************************)

\* What the transaction t reads: its snapshot overlaid with its own writes.
View(t) ==
    [u \in DOMAIN t.snap |-> IF u \in DOMAIN t.bal THEN t.bal[u] ELSE t.snap[u]]

\* The transaction p's operations run in: the caller's (shopping.py:102,
\* nullcontext) or a new one started on the spot (start_transaction).
FreshTxn == [NoTxn EXCEPT !.state = "active", !.snap = users]
TxnOf(p) == IF owns_session(p) THEN FreshTxn ELSE txn[p]

\* Mutant of FindView: the lookup does not filter by _id and returns
\* whichever user record exists.
FindAnyView(p) ==
    [u \in (IF DOMAIN users = {} THEN {} ELSE UserIds) |->
        users[CHOOSE x \in DOMAIN users : TRUE]]

\* find_one: budget.py:85 reads outside any session; shopping.py:80 passes
\* session=mongo_session (None when the routine owns the session).
FindView(p) == IF mongo_session[p] THEN View(txn[p]) ELSE users

Changed(t, u) ==
    \/ (u \in DOMAIN t.snap) # (u \in DOMAIN users)
    \/ u \in DOMAIN t.snap /\ u \in DOMAIN users /\ t.snap[u] # users[u]

Locked(p, u) ==
    \E q \in Procs \ {p} : txn[q].state = "active" /\ u \in DOMAIN txn[q].bal

WriteConflict(p, t, u) == Locked(p, u) \/ Changed(t, u)

\* insert_one(entry, session=s): pending in the session's transaction t, or
\* visible at once when no session is passed.
Inserted(s, t, field, committed, e) ==
    [committed |-> IF s = NoSession THEN Append(committed, e) ELSE committed,
     t |-> IF s = NoSession THEN t ELSE [t EXCEPT ![field] = Append(@, e)]]

\* update_one(..., session=...): the new balance is pending in t.
Updated(t, u, balance) ==
    [t EXCEPT !.bal = [x \in DOMAIN t.bal \cup {u} |->
                          IF x = u THEN balance ELSE t.bal[x]]]

\* Mutant of Commit: the pending ledger and audit entries take the place
\* of the visible ones instead of being added to them.
CommitOverwrites(p, t) ==
    /\ users' = [u \in DOMAIN users |->
                    IF u \in DOMAIN t.bal THEN t.bal[u] ELSE users[u]]
    /\ ledger' = t.led
    /\ audit' = t.aud
    /\ decrements' =
         [decrements EXCEPT ![p] =
            IF user_id[p] \in DOMAIN t.bal /\ user_id[p] \in DOMAIN users
            THEN Append(@, [before |-> users[user_id[p]],
                            after |-> t.bal[user_id[p]]])
            ELSE @]

\* commit_transaction: the pending writes of t become visible together.
Commit(p, t) ==
    /\ users' = [u \in DOMAIN users |->
                    IF u \in DOMAIN t.bal THEN t.bal[u] ELSE users[u]]
    /\ ledger' = ledger \o t.led
    /\ audit' = audit \o t.aud
    /\ decrements' =
         [decrements EXCEPT ![p] =
            IF user_id[p] \in DOMAIN t.bal /\ user_id[p] \in DOMAIN users
            THEN Append(@, [before |-> users[user_id[p]],
                            after |-> t.bal[user_id[p]]])
            ELSE @]


\* A collection without documents, a request that was not made, and the
\* transaction of a handler that has not touched the shopping collections.
NoDocs == <<>>
NoForm == [new_items |-> <<>>, save_list |-> FALSE, item_id |-> 0,
           edit_item_id |-> 0, edit_name |-> "", edit_cost |-> 0]
NoRequest == [route |-> "none", id |-> "", at |-> "none", status |-> "",
              sent |-> "none", form |-> NoForm,
              local |-> [list_status |-> "", new_status |-> "",
                         operations |-> 0, total_spent |-> 0]]
NoWork == [lists |-> NoDocs, items |-> NoDocs, wrote_lists |-> {},
           wrote_items |-> {}]

(***************************************************************************)
(* Exceptions.  kind is "transient" (OperationFailure labelled             *)
(* TransientTransactionError), "permanent" (any other storage error        *)
(* reported by the server), "client" (the ValueError of shopping.py:126    *)
(* and budget.py:126) or "ended" (InvalidOperation, a PyMongoError: the    *)
(* session has been ended); the last two are raised on the client, the     *)
(* server has seen no error.                                               *)
(***************************************************************************)

\* Mutant of Caught: only the storage errors reported by the server are
\* handled, as if `except errors.OperationFailure` were the only clause.
CaughtStorageOnly(v, kind) == kind \in ErrorKinds

\* The except clauses: budget.py:161 (Exception); shopping.py:162
\* (OperationFailure), 181 (ValueError, PyMongoError), 192 and 214
\* (Exception).
Caught(v, kind) ==
    IF v = "budget" THEN kind \in ErrorKinds \cup {"client", "ended"}
    ELSE \/ kind \in ErrorKinds
         \/ kind \in {"client", "ended"}

\* Mutant of Retried: every storage error the server reports is retried,
\* the label is not looked at.
RetriedWithoutLabel(p, kind) ==
    /\ variant[p] = "shopping"
    /\ kind \in ErrorKinds
    /\ attempt[p] < max_retries - 1

\* Mutant of Retried: a transient error is retried however many attempts
\* were made.
RetriedUnbounded(p, kind) ==
    /\ variant[p] = "shopping"
    /\ kind = "transient"

\* shopping.py:165-169: only a transient OperationFailure is retried, and
\* only while attempt < max_retries - 1.  budget.py:161 has no retry.
Retried(p, kind) ==
    /\ variant[p] = "shopping"
    /\ kind = "transient"
    /\ attempt[p] < max_retries - 1

\* Mutant of AfterError: the transaction and its pending writes survive
\* the exception.
AfterErrorKeepsWrites(p, kind, t) == t

\* The transaction after an exception has left the with-block: the
\* routine's own transaction is aborted by the context manager
\* (budget.py:102, shopping.py:102); a caller's transaction is left alone
\* by the routine (shopping.py:174,185,196) but was aborted by the server
\* when the server reported the error.
AfterError(p, kind, t) ==
    IF owns_session(p) THEN NoTxn
    ELSE IF kind \in ErrorKinds THEN [NoTxn EXCEPT !.state = "aborted"]
    ELSE t

\* Mutant of EndsSession: the session is ended whoever opened it.
EndsSessionAlways(p) == TRUE

\* budget.py:101 (with start_session) and shopping.py:203-206 (finally:
\* end_session, on every way out of an iteration, `continue` included).
EndsSession(p) == owns_session(p)

\* The call ends: it returns value, or (how = "Raised") an exception leaves
\* it and the caller gets no value.
Return(p, value, how) ==
    /\ pc' = [pc EXCEPT ![p] = IF owns_session(p) /\ ~creating[p]
                                THEN "done" ELSE "returned"]
    /\ ret' = [ret EXCEPT ![p] = value]
    /\ outcome' = [outcome EXCEPT ![p] = how]

Raise(p, kind, t) ==
    /\ errs' = [errs EXCEPT ![p] = Append(@, [at |-> pc[p], kind |-> kind])]
    /\ txn' = [txn EXCEPT ![p] = AfterError(p, kind, t)]
    /\ ended' = [ended EXCEPT ![p] = @ \/ EndsSession(p)]
    /\ IF ~Caught(variant[p], kind)
       THEN /\ Return(p, FALSE, "Raised")
            /\ UNCHANGED attempt
       ELSE IF Retried(p, kind)
       THEN /\ attempt' = [attempt EXCEPT ![p] = @ + 1]
            /\ pc' = [pc EXCEPT ![p] = "Mutating"]
            /\ UNCHANGED <<ret, outcome>>
       ELSE /\ Return(p, FALSE, "Aborted")
            /\ UNCHANGED attempt

\* A storage operation may fail; the model injects at most MaxFaults errors.
Fault(kind) ==
    /\ faults < MaxFaults
    /\ kind \in ErrorKinds
    /\ faults' = faults + 1

(***************************************************************************)
(* Initial state and the steps of one call.                                *)
(***************************************************************************)

InitCredits ==
    /\ users \in [Registered -> {c * Unit : c \in 0..MaxCredits}]
    /\ init_balance = users
    /\ ledger = <<>>
    /\ audit = <<>>
    /\ pc = [p \in Procs |-> "idle"]
    /\ variant = [p \in Procs |-> "budget"]
    /\ mongo_session = [p \in Procs |-> FALSE]
    /\ user_id = [p \in Procs |-> ""]
    /\ amount = [p \in Procs |-> 0]
    /\ amt = [p \in Procs |-> 0]
    /\ current_balance = [p \in Procs |-> 0]
    /\ attempt = [p \in Procs |-> 0]
    /\ ret = [p \in Procs |-> FALSE]
    /\ outcome = [p \in Procs |-> "none"]
    /\ txn = [p \in Procs |-> NoTxn]
    /\ ended = [p \in Procs |-> FALSE]
    /\ decrements = [p \in Procs |-> <<>>]
    /\ errs = [p \in Procs |-> <<>>]
    /\ faults = 0

Init ==
    /\ InitCredits
    /\ budgets = {}
    /\ creating = [p \in Procs |-> FALSE]
    /\ shopping_lists = NoDocs
    /\ shopping_items = NoDocs
    /\ request = [p \in Procs |-> NoRequest]
    /\ work = [p \in Procs |-> NoWork]

\* A shopping handler opens a session and a transaction of its own before
\* it calls the routine with mongo_session (shopping.py:760-765, 656-699).
CallerBegin(p) ==
    /\ pc[p] = "idle"
    /\ pc' = [pc EXCEPT ![p] = "caller"]
    /\ variant' = [variant EXCEPT ![p] = "shopping"]
    /\ mongo_session' = [mongo_session EXCEPT ![p] = TRUE]
    /\ txn' = [txn EXCEPT ![p] = FreshTxn]
    /\ UNCHANGED <<store, user_id, amount, amt, current_balance, attempt,
                   ret, outcome, ended, history, faults>>
    /\ UNCHANGED business

\* The call, and its argument checks (budget.py:72-82, shopping.py:66-77).
Invoke(p, v, uid, a) ==
    /\ \/ pc[p] = "idle"
       \/ pc[p] = "caller" /\ v = "shopping"
       \/ pc[p] = "created" /\ v = "budget" /\ uid = current_user /\ a = 1 * Unit
    /\ variant' = [variant EXCEPT ![p] = v]
    /\ user_id' = [user_id EXCEPT ![p] = uid]
    /\ amount' = [amount EXCEPT ![p] = a]
    /\ amt' = [amt EXCEPT ![p] = Converted(v, a)]
    /\ IF ArgsValid(v, uid, a)
       THEN /\ pc' = [pc EXCEPT ![p] = "Checking"]
            /\ UNCHANGED <<ret, outcome>>
       ELSE Return(p, FALSE, "InvalidArgument")
    /\ UNCHANGED <<store, mongo_session, current_balance, attempt,
                   sessions, history, faults>>
    /\ UNCHANGED business

\* find_one and the balance pre-check (budget.py:85-98, shopping.py:80-93).
Check(p) ==
    /\ pc[p] = "Checking"
    /\ LET found == FindView(p)
           uid == user_id[p]
       IN IF uid \notin DOMAIN found
          THEN /\ Return(p, FALSE, "NotFound")
               /\ UNCHANGED current_balance
          ELSE /\ current_balance' = [current_balance EXCEPT ![p] = found[uid]]
               /\ IF Sufficient(found[uid], amt[p])
                  THEN /\ pc' = [pc EXCEPT ![p] = "Mutating"]
                       /\ UNCHANGED <<ret, outcome>>
                  ELSE Return(p, FALSE, "InsufficientBalance")
    /\ UNCHANGED <<store, variant, mongo_session, user_id, amount, amt,
                   attempt, sessions, history, faults>>
    /\ UNCHANGED business

\* find_one raises: the outer handler returns False (budget.py:161-164,
\* shopping.py:214-217).
CheckFails(p, kind) ==
    /\ pc[p] = "Checking"
    /\ Fault(kind)
    /\ txn' = [txn EXCEPT ![p] = IF mongo_session[p]
                                 THEN [NoTxn EXCEPT !.state = "aborted"] ELSE @]
    /\ errs' = [errs EXCEPT ![p] = Append(@, [at |-> pc[p], kind |-> kind])]
    /\ Return(p, FALSE, IF Caught(variant[p], kind) THEN "Aborted" ELSE "Raised")
    /\ UNCHANGED <<store, locals, ended, decrements, init_balance>>
    /\ UNCHANGED business


\* One mutation attempt begins: start_transaction and update_one
\* (budget.py:101-126, shopping.py:100-126).
Update(p) ==
    /\ pc[p] = "Mutating"
    /\ LET t == TxnOf(p)
           u == user_id[p]
           failed == Inserted(LedgerSession(p), t, "led", ledger, FailedEntry(p))
       IN IF owns_session(p) /\ ended[p]
          THEN \* start_transaction on an ended session: InvalidOperation
               Raise(p, "ended", NoTxn) /\ UNCHANGED ledger
          ELSE IF t.state = "aborted"
          THEN \* NoSuchTransaction
               Raise(p, "transient", t) /\ UNCHANGED ledger
          ELSE IF WriteConflict(p, t, u)
          THEN Raise(p, "transient", t) /\ UNCHANGED ledger
          ELSE IF \/ u \notin DOMAIN View(t)
                  \/ ~Modified(View(t)[u], Decrement(View(t)[u], amt[p]))
          THEN \* modified_count == 0: failed ledger entry, ValueError
               /\ ledger' = failed.committed
               /\ Raise(p, "client", failed.t)
          ELSE /\ txn' = [txn EXCEPT ![p] =
                            Updated(t, u, Decrement(View(t)[u], amt[p]))]
               /\ pc' = [pc EXCEPT ![p] = "InsertLedger"]
               /\ UNCHANGED <<ledger, ended, attempt, ret, outcome, errs>>
    /\ UNCHANGED <<users, audit, locals_but_attempt, decrements,
                   init_balance, faults>>
    /\ UNCHANGED business

\* update_one raises a storage error.
UpdateFails(p, kind) ==
    /\ pc[p] = "Mutating"
    /\ ~(owns_session(p) /\ ended[p])
    /\ Fault(kind)
    /\ Raise(p, kind, TxnOf(p))
    /\ UNCHANGED <<store, locals_but_attempt, decrements, init_balance>>
    /\ UNCHANGED business

\* The completed ledger entry (budget.py:129-139, shopping.py:129-139).
InsertLedger(p) ==
    /\ pc[p] = "InsertLedger"
    /\ LET r == Inserted(LedgerSession(p), txn[p], "led", ledger, CompletedEntry(p))
       IN /\ ledger' = r.committed
          /\ txn' = [txn EXCEPT ![p] = r.t]
    /\ pc' = [pc EXCEPT ![p] = "InsertAudit"]
    /\ UNCHANGED <<users, audit, locals, ret, outcome, ended, history, faults>>
    /\ UNCHANGED business

\* The audit entry (budget.py:142-153, shopping.py:142-153); the shopping
\* variant returns True here when the session is the caller's
\* (shopping.py:155-160).
InsertAudit(p) ==
    /\ pc[p] = "InsertAudit"
    /\ LET r == Inserted(AuditSession(p), txn[p], "aud", audit, AuditEntry(p))
       IN /\ audit' = r.committed
          /\ txn' = [txn EXCEPT ![p] = r.t]
    /\ IF owns_session(p)
       THEN /\ pc' = [pc EXCEPT ![p] = "Commit"]
            /\ UNCHANGED <<ret, outcome>>
       ELSE Return(p, TRUE, "Committed")
    /\ UNCHANGED <<users, ledger, locals, ended, history, faults>>
    /\ UNCHANGED business

\* insert_one raises a storage error.
InsertFails(p, kind) ==
    /\ pc[p] \in {"InsertLedger", "InsertAudit"}
    /\ Fault(kind)
    /\ Raise(p, kind, txn[p])
    /\ UNCHANGED <<store, locals_but_attempt, decrements, init_balance>>
    /\ UNCHANGED business

\* commit_transaction of the routine's own transaction, then return True
\* (budget.py:155-159, shopping.py:155-160).
CommitOwn(p) ==
    /\ pc[p] = "Commit"
    /\ Commit(p, txn[p])
    /\ txn' = [txn EXCEPT ![p] = NoTxn]
    /\ ended' = [ended EXCEPT ![p] = @ \/ EndsSession(p)]
    /\ Return(p, TRUE, "Committed")
    /\ UNCHANGED <<locals, errs, init_balance, faults>>
    /\ UNCHANGED business

\* commit_transaction raises: nothing becomes visible.
CommitFails(p, kind) ==
    /\ pc[p] = "Commit"
    /\ Fault(kind)
    /\ Raise(p, kind, txn[p])
    /\ UNCHANGED <<store, locals_but_attempt, decrements, init_balance>>
    /\ UNCHANGED business

\* The handler leaves its with-block after the routine returned, True or
\* False (shopping.py:699-701, 765-767): the context manager commits the
\* handler's transaction; committing a transaction the server has aborted
\* raises.
CallerEnd(p) ==
    /\ pc[p] = "returned" /\ mongo_session[p]
    /\ IF txn[p].state = "active"
       THEN Commit(p, txn[p])
       ELSE UNCHANGED <<store, decrements>>
    /\ txn' = [txn EXCEPT ![p] = NoTxn]
    /\ ended' = [ended EXCEPT ![p] = TRUE]
    /\ pc' = [pc EXCEPT ![p] = "done"]
    /\ UNCHANGED <<locals, ret, outcome, errs, init_balance, faults>>
    /\ UNCHANGED business

\* The handler's commit raises: nothing becomes visible.
CallerEndFails(p, kind) ==
    /\ pc[p] = "returned" /\ mongo_session[p]
    /\ txn[p].state = "active"
    /\ Fault(kind)
    /\ txn' = [txn EXCEPT ![p] = NoTxn]
    /\ ended' = [ended EXCEPT ![p] = TRUE]
    /\ pc' = [pc EXCEPT ![p] = "done"]
    /\ UNCHANGED <<store, locals, ret, outcome, history>>
    /\ UNCHANGED business

\* Another part of the application removes the user record (the case the
\* routine's modified_count == 0 branch handles); the store makes a write
\* outside a transaction wait for the transactions that wrote the document.
DeleteUser(u) ==
    /\ u \in DOMAIN users
    /\ \A p \in Procs : ~(txn[p].state = "active" /\ u \in DOMAIN txn[p].bal)
    /\ users' = [x \in DOMAIN users \ {u} |-> users[x]]
    /\ UNCHANGED <<ledger, audit, locals, control, sessions, history, faults>>
    /\ UNCHANGED business

(***************************************************************************)
(* The budget-creation request (budget.py:362-431, handler new) of a user  *)
(* who is not an admin.                                                    *)
(***************************************************************************)

\* budget.py:364  utils.check_ficore_credit_balance(required_amount=1, ...)
HasCredits(uid, a) == uid \in DOMAIN users /\ users[uid] >= a

\* budget.py:363-367: without a credit the request ends in a redirect.
NewBegin(p) ==
    /\ pc[p] = "idle"
    /\ IF HasCredits(current_user, 1 * Unit)
       THEN /\ pc' = [pc EXCEPT ![p] = "creating"]
            /\ creating' = [creating EXCEPT ![p] = TRUE]
       ELSE /\ pc' = [pc EXCEPT ![p] = "done"]
            /\ UNCHANGED creating
    /\ UNCHANGED <<store, locals, ret, outcome, sessions, history, faults,
                   budgets, shopping>>

\* budget.py:396-418  create_budget(db, budget_data): the budget record,
\* with _id = budget_id, is stored.
CreateBudget(p) ==
    /\ pc[p] = "creating"
    /\ budgets' = budgets \cup {p}
    /\ pc' = [pc EXCEPT ![p] = "created"]
    /\ UNCHANGED <<store, locals, ret, outcome, sessions, history, faults,
                   creating, shopping>>

\* create_budget raises: budget.py:428-431 ends the request.
CreateBudgetFails(p, kind) ==
    /\ pc[p] = "creating"
    /\ Fault(kind)
    /\ pc' = [pc EXCEPT ![p] = "done"]
    /\ UNCHANGED <<store, locals, ret, outcome, sessions, history, business>>

\* budget.py:420-427: when the deduction returned False the budget record
\* is deleted; the request ends.
NewEnd(p) ==
    /\ pc[p] = "returned" /\ creating[p]
    /\ budgets' = IF ret[p] THEN budgets ELSE budgets \ {p}
    /\ pc' = [pc EXCEPT ![p] = "done"]
    /\ UNCHANGED <<store, locals, ret, outcome, sessions, history, faults,
                   creating, shopping>>

\* budget.py:421 delete_one raises: budget.py:428-431 ends the request.
NewEndFails(p, kind) ==
    /\ pc[p] = "returned" /\ creating[p]
    /\ ~ret[p]
    /\ Fault(kind)
    /\ pc' = [pc EXCEPT ![p] = "done"]
    /\ UNCHANGED <<store, locals, ret, outcome, sessions, history, business>>

Next ==
    \/ \E p \in Procs : CallerBegin(p)
    \/ \E p \in Procs, v \in Variants, uid \in UserIds, a \in Amounts :
          Invoke(p, v, uid, a)
    \/ \E p \in Procs : Check(p)
    \/ \E p \in Procs, kind \in ErrorKinds : CheckFails(p, kind)
    \/ \E p \in Procs : Update(p)
    \/ \E p \in Procs, kind \in ErrorKinds : UpdateFails(p, kind)
    \/ \E p \in Procs : InsertLedger(p)
    \/ \E p \in Procs : InsertAudit(p)
    \/ \E p \in Procs, kind \in ErrorKinds : InsertFails(p, kind)
    \/ \E p \in Procs : CommitOwn(p)
    \/ \E p \in Procs, kind \in ErrorKinds : CommitFails(p, kind)
    \/ \E p \in Procs : CallerEnd(p)
    \/ \E p \in Procs, kind \in ErrorKinds : CallerEndFails(p, kind)
    \/ \E u \in Registered : DeleteUser(u)

Spec == Init /\ [][Next]_vars

\* The steps call p's routine takes when the store answers.  A request runs
\* in its own thread and the store answers every operation, so a call that
\* can take a step does take one.
Step(p) ==
    \/ Check(p)
    \/ Update(p)
    \/ InsertLedger(p)
    \/ InsertAudit(p)
    \/ CommitOwn(p)

FairSpec == Spec /\ \A p \in Procs : WF_vars(Step(p))

\* The same requests made one after the other: a request begins only when
\* no other request is in progress.
NoneInProgress == \A q \in Procs : pc[q] \in {"idle", "done"}

SeqNext ==
    \/ \E p \in Procs : NoneInProgress /\ CallerBegin(p)
    \/ \E p \in Procs, v \in Variants, uid \in UserIds, a \in Amounts :
          (pc[p] = "idle" => NoneInProgress) /\ Invoke(p, v, uid, a)
    \/ \E p \in Procs : Check(p)
    \/ \E p \in Procs, kind \in ErrorKinds : CheckFails(p, kind)
    \/ \E p \in Procs : Update(p)
    \/ \E p \in Procs, kind \in ErrorKinds : UpdateFails(p, kind)
    \/ \E p \in Procs : InsertLedger(p)
    \/ \E p \in Procs : InsertAudit(p)
    \/ \E p \in Procs, kind \in ErrorKinds : InsertFails(p, kind)
    \/ \E p \in Procs : CommitOwn(p)
    \/ \E p \in Procs, kind \in ErrorKinds : CommitFails(p, kind)
    \/ \E p \in Procs : CallerEnd(p)
    \/ \E p \in Procs, kind \in ErrorKinds : CallerEndFails(p, kind)
    \/ \E u \in Registered : DeleteUser(u)

SeqSpec == Init /\ [][SeqNext]_vars

\* The deductions together with the budget-creation requests.
NewNext ==
    \/ Next
    \/ \E p \in Procs : NewBegin(p)
    \/ \E p \in Procs : CreateBudget(p)
    \/ \E p \in Procs, kind \in ErrorKinds : CreateBudgetFails(p, kind)
    \/ \E p \in Procs : NewEnd(p)
    \/ \E p \in Procs, kind \in ErrorKinds : NewEndFails(p, kind)

NewSpec == Init /\ [][NewNext]_vars


(***************************************************************************)
(* The delete and export requests of a user who is not an admin            *)
(* (budget.py: handlers new, manage, delete_budget; shopping.py: handlers  *)
(* new, delete_list, export_list_pdf, export_pdf).  request[p].at is how   *)
(* far the handler got: "found" after its lookups, "calling" when it is    *)
(* about to call the deduction routine, "over" when it has answered.       *)
(***************************************************************************)

ListIds == {"L1", "L2"}
BudgetIds == {"B1", "B2"}
other_user == "u2"

\* The user_id field of the stored budget records.
budget_user_id == [b \in BudgetIds |-> IF b = "B1" THEN current_user ELSE other_user]

\* Mutant of filter_criteria: the filter of an admin, which matches the
\* records of every user.
filter_criteria_admin(doc_user_id) == TRUE

\* budget.py:866, 1118 and shopping.py:388, 1718:
\* filter_criteria = {} if is_admin() else {'user_id': str(current_user.id)}
filter_criteria(doc_user_id) == doc_user_id = current_user

\* The documents of a collection that a query on list_id matches.
ItemsOf(items, l) == {i \in DOMAIN items : items[i].list_id = l}

Without(docs, ids) == [d \in DOMAIN docs \ ids |-> docs[d]]

\* Another open transaction has written the list, or one of the items.
ListLocked(p, l) ==
    \E q \in Procs \ {p} : txn[q].state = "active" /\ l \in work[q].wrote_lists
ItemLocked(p, ids) ==
    \E q \in Procs \ {p} : txn[q].state = "active" /\ work[q].wrote_items \cap ids # {}

\* What is visible of a collection once the transaction with the view
\* `view` and the written documents `wrote` has committed.
Applied(docs, view, wrote) ==
    [d \in {x \in DOMAIN docs \cup DOMAIN view :
                IF x \in wrote THEN x \in DOMAIN view ELSE x \in DOMAIN docs} |->
        IF d \in wrote THEN view[d] ELSE docs[d]]

\* The handler's transaction commits: the deduction's pending writes and
\* the handler's own writes become visible together.
CommitRequest(p) ==
    /\ Commit(p, txn[p])
    /\ shopping_lists' = Applied(shopping_lists, work[p].lists, work[p].wrote_lists)
    /\ shopping_items' = Applied(shopping_items, work[p].items, work[p].wrote_items)

\* The request is answered.
Answer(p, what) ==
    request' = [request EXCEPT ![p].at = "over", ![p].sent = what]

\* start_session and start_transaction of a handler, with the first
\* operation of the transaction (which takes the snapshot).
StartTransaction(p) ==
    /\ txn' = [txn EXCEPT ![p] = FreshTxn]
    /\ mongo_session' = [mongo_session EXCEPT ![p] = TRUE]
    /\ variant' = [variant EXCEPT ![p] = "shopping"]

\* budget.py:868-878 (handler manage; handler new, budget.py:473-483, has
\* the same code) and budget.py:1118-1122 (delete_budget, which makes no
\* balance check): find_one with the user filter, then the balance check.
BudgetDeleteBegin(p, r, b) ==
    /\ pc[p] = "idle" /\ request[p].at = "none"
    /\ r \in {"delete", "delete_budget"}
    /\ LET found == b \in budgets /\ filter_criteria(budget_user_id[b])
           proceed == found /\ (r = "delete" => HasCredits(current_user, 1 * Unit))
       IN /\ request' = [request EXCEPT ![p] =
                [NoRequest EXCEPT !.route = r, !.id = b,
                                  !.at = IF proceed THEN "found" ELSE "over",
                                  !.sent = IF proceed THEN "none" ELSE "refused"]]
          /\ pc' = [pc EXCEPT ![p] = IF proceed THEN "idle" ELSE "done"]
    /\ UNCHANGED <<store, locals, ret, outcome, sessions, history, faults,
                   budgets, creating, shopping_lists, shopping_items, work>>

\* budget.py:888-889 delete_one({'_id': ..., **filter_criteria}) and
\* budget.py:1125 delete_one({'_id': ...}); deleted_count > 0 leads to the
\* deduction.
BudgetDeleteOne(p) ==
    /\ pc[p] = "idle" /\ request[p].at = "found"
    /\ request[p].route \in {"delete", "delete_budget"}
    /\ LET b == request[p].id
           matched == /\ b \in budgets
                      /\ request[p].route = "delete" => filter_criteria(budget_user_id[b])
       IN IF matched
          THEN /\ budgets' = budgets \ {b}
               /\ request' = [request EXCEPT ![p].at = "calling"]
               /\ UNCHANGED pc
          ELSE /\ Answer(p, "not_found")
               /\ pc' = [pc EXCEPT ![p] = "done"]
               /\ UNCHANGED budgets
    /\ UNCHANGED <<store, locals, ret, outcome, sessions, history, faults,
                   creating, shopping_lists, shopping_items, work>>

\* budget.py:894 and 1132: the deduction of 1 credit.  delete_budget calls
\* the routine of the bill module, which is either of the two variants.
BudgetDeleteCall(p) ==
    /\ request[p].at = "calling"
    /\ request[p].route \in {"delete", "delete_budget"}
    /\ pc[p] = "idle"
    /\ \E v \in Variants :
          /\ request[p].route = "delete" => v = "budget"
          /\ Invoke(p, v, current_user, 1 * Unit)

\* budget.py:894-901 and 1132-1147: the answer, after the routine returned.
BudgetDeleteEnd(p) ==
    /\ request[p].at = "calling"
    /\ request[p].route \in {"delete", "delete_budget"}
    /\ pc[p] = "done"
    /\ Answer(p, IF ret[p] \/ request[p].route = "delete_budget"
                 THEN "deleted" ELSE "deduction_failed")
    /\ UNCHANGED <<store, locals, control, sessions, history, faults,
                   budgets, creating, shopping_lists, shopping_items, work>>

\* shopping.py:751-758 (handler new, action delete_list) and
\* shopping.py:1719-1722 (delete_list, which makes no balance check).
DeleteListBegin(p, r, l) ==
    /\ pc[p] = "idle" /\ request[p].at = "none"
    /\ r \in {"new.delete_list", "delete_list"}
    /\ LET found == /\ l \in DOMAIN shopping_lists
                    /\ filter_criteria(shopping_lists[l].user_id)
           proceed == found /\ (r = "new.delete_list" => HasCredits(current_user, 1 * Unit))
       IN /\ request' = [request EXCEPT ![p] =
                [NoRequest EXCEPT !.route = r, !.id = l,
                                  !.at = IF proceed THEN "found" ELSE "over",
                                  !.sent = IF proceed THEN "none" ELSE "refused"]]
          /\ pc' = [pc EXCEPT ![p] = IF proceed THEN "idle" ELSE "done"]
    /\ UNCHANGED <<store, locals, ret, outcome, sessions, history, faults,
                   budgets, creating, shopping_lists, shopping_items, work>>

\* shopping.py:760-763: inside the handler's transaction, delete_many of
\* the items and delete_one of the list; a document written by another
\* open transaction makes the store raise, and the handler answers with an
\* error (shopping.py:774-777).
DeleteListTxn(p) ==
    /\ pc[p] = "idle" /\ request[p].at = "found"
    /\ request[p].route = "new.delete_list"
    /\ LET l == request[p].id
           ids == ItemsOf(shopping_items, l)
           ls == {l} \cap DOMAIN shopping_lists
       IN IF ListLocked(p, l) \/ ItemLocked(p, ids)
          THEN /\ Answer(p, "error")
               /\ pc' = [pc EXCEPT ![p] = "done"]
               /\ UNCHANGED <<txn, mongo_session, variant, work>>
          ELSE /\ StartTransaction(p)
               /\ work' = [work EXCEPT ![p] =
                             [lists |-> Without(shopping_lists, ls),
                              items |-> Without(shopping_items, ids),
                              wrote_lists |-> ls, wrote_items |-> ids]]
               /\ request' = [request EXCEPT ![p].at = "calling"]
               /\ pc' = [pc EXCEPT ![p] = "caller"]
    /\ UNCHANGED <<store, user_id, amount, amt, current_balance, attempt,
                   ret, outcome, ended, history, faults,
                   budgets, creating, shopping_lists, shopping_items>>

\* shopping.py:765: the deduction of 1 credit on the handler's session.
DeleteListCall(p) ==
    /\ request[p].at = "calling"
    /\ request[p].route \in {"new.delete_list", "delete_list"}
    /\ pc[p] = IF request[p].route = "delete_list" THEN "idle" ELSE "caller"
    /\ Invoke(p, "shopping", current_user, 1 * Unit)

\* shopping.py:765-770: the handler leaves its with-block, by the return of
\* line 767 when the routine returned False and at its end otherwise; both
\* ways the context manager commits the transaction.  Committing a
\* transaction the server has aborted raises (shopping.py:774-777).
DeleteListEnd(p) ==
    /\ request[p].route = "new.delete_list"
    /\ pc[p] = "returned"
    /\ IF txn[p].state = "active"
       THEN /\ CommitRequest(p)
            /\ Answer(p, IF ret[p] THEN "deleted" ELSE "deduction_failed")
       ELSE /\ Answer(p, "error")
            /\ UNCHANGED <<store, decrements, shopping_lists, shopping_items>>
    /\ txn' = [txn EXCEPT ![p] = NoTxn]
    /\ ended' = [ended EXCEPT ![p] = TRUE]
    /\ work' = [work EXCEPT ![p] = NoWork]
    /\ pc' = [pc EXCEPT ![p] = "done"]
    /\ UNCHANGED <<locals, ret, outcome, errs, init_balance, faults,
                   budgets, creating>>

\* The handler's commit raises: nothing becomes visible.
DeleteListEndFails(p, kind) ==
    /\ request[p].route = "new.delete_list"
    /\ pc[p] = "returned"
    /\ txn[p].state = "active"
    /\ Fault(kind)
    /\ Answer(p, "error")
    /\ txn' = [txn EXCEPT ![p] = NoTxn]
    /\ ended' = [ended EXCEPT ![p] = TRUE]
    /\ work' = [work EXCEPT ![p] = NoWork]
    /\ pc' = [pc EXCEPT ![p] = "done"]
    /\ UNCHANGED <<store, locals, ret, outcome, history,
                   budgets, creating, shopping_lists, shopping_items>>

\* shopping.py:1725 delete_many({'list_id': list_id}), issued without a
\* session; the store makes it wait for the transactions that wrote one of
\* the items.
DeleteListItems(p) ==
    /\ pc[p] = "idle" /\ request[p].at = "found"
    /\ request[p].route = "delete_list"
    /\ LET ids == ItemsOf(shopping_items, request[p].id)
       IN /\ ~ItemLocked(p, ids)
          /\ shopping_items' = Without(shopping_items, ids)
    /\ request' = [request EXCEPT ![p].at = "items_deleted"]
    /\ UNCHANGED <<store, locals, control, sessions, history, faults,
                   budgets, creating, shopping_lists, work>>

\* shopping.py:1728-1730 delete_one({'_id': ...}) without a session;
\* deleted_count > 0 leads to the deduction, 0 to the answer of line 1750.
DeleteListOne(p) ==
    /\ pc[p] = "idle" /\ request[p].at = "items_deleted"
    /\ LET l == request[p].id
       IN /\ ~ListLocked(p, l)
          /\ IF l \in DOMAIN shopping_lists
             THEN /\ shopping_lists' = Without(shopping_lists, {l})
                  /\ request' = [request EXCEPT ![p].at = "calling"]
                  /\ UNCHANGED pc
             ELSE /\ Answer(p, "failed")
                  /\ pc' = [pc EXCEPT ![p] = "done"]
                  /\ UNCHANGED shopping_lists
    /\ UNCHANGED <<store, locals, ret, outcome, sessions, history, faults,
                   budgets, creating, shopping_items, work>>

\* shopping.py:1733-1748: the answer is a success whatever the routine
\* returned.
DeleteListRouteEnd(p) ==
    /\ request[p].at = "calling"
    /\ request[p].route = "delete_list"
    /\ pc[p] = "done"
    /\ Answer(p, "deleted")
    /\ UNCHANGED <<store, locals, control, sessions, history, faults,
                   budgets, creating, shopping_lists, shopping_items, work>>

\* A delete issued by a handler outside a transaction raises a storage
\* error (budget.py:903-905, 1152-1154; shopping.py:1752-1754), and so does
\* the first operation of the transaction of shopping.py:760-763.
DeleteFails(p, kind) ==
    /\ pc[p] = "idle"
    /\ request[p].at \in {"found", "items_deleted"}
    /\ request[p].route \in {"delete", "delete_budget", "delete_list", "new.delete_list"}
    /\ Fault(kind)
    /\ Answer(p, "error")
    /\ pc' = [pc EXCEPT ![p] = "done"]
    /\ UNCHANGED <<store, locals, ret, outcome, sessions, history,
                   budgets, creating, shopping_lists, shopping_items, work>>

\* shopping.py:1323-1333 (export_list_pdf): find_one with the user's id,
\* the status check and the balance check.
\* shopping.py:1869-1880 (export_pdf): the balance check and find_one with
\* the user filter.
ExportBegin(p, r, l) ==
    /\ pc[p] = "idle" /\ request[p].at = "none"
    /\ r \in {"export_list_pdf", "export_pdf"}
    /\ LET found == /\ l \in DOMAIN shopping_lists
                    /\ IF r = "export_list_pdf"
                       THEN shopping_lists[l].user_id = current_user
                       ELSE filter_criteria(shopping_lists[l].user_id)
           proceed == /\ found
                      /\ r = "export_list_pdf" => shopping_lists[l].status = "saved"
                      /\ HasCredits(current_user, 2 * Unit)
       IN /\ request' = [request EXCEPT ![p] =
                [NoRequest EXCEPT !.route = r, !.id = l,
                                  !.status = IF proceed THEN shopping_lists[l].status ELSE "",
                                  !.at = IF proceed
                                         THEN (IF r = "export_pdf" THEN "calling" ELSE "found")
                                         ELSE "over",
                                  !.sent = IF proceed THEN "none" ELSE "refused"]]
          /\ pc' = [pc EXCEPT ![p] = IF proceed THEN "idle" ELSE "done"]
    /\ UNCHANGED <<store, locals, ret, outcome, sessions, history, faults,
                   budgets, creating, shopping_lists, shopping_items, work>>

\* shopping.py:1355-1356: export_list_pdf opens its transaction.
ExportListPdfTxn(p) ==
    /\ pc[p] = "idle" /\ request[p].at = "found"
    /\ request[p].route = "export_list_pdf"
    /\ StartTransaction(p)
    /\ request' = [request EXCEPT ![p].at = "calling"]
    /\ pc' = [pc EXCEPT ![p] = "caller"]
    /\ UNCHANGED <<store, user_id, amount, amt, current_balance, attempt,
                   ret, outcome, ended, history, faults,
                   budgets, creating, shopping_lists, shopping_items, work>>

\* shopping.py:1445 and 1946: the deduction of 2 credits, on the handler's
\* session in export_list_pdf.
ExportCall(p) ==
    /\ request[p].at = "calling"
    /\ request[p].route \in {"export_list_pdf", "export_pdf"}
    /\ pc[p] = IF request[p].route = "export_pdf" THEN "idle" ELSE "caller"
    /\ Invoke(p, "shopping", current_user, 2 * Unit)

\* shopping.py:1445-1448: export_list_pdf leaves its with-block, which
\* commits, and sends the PDF when the routine returned True.
ExportListPdfEnd(p) ==
    /\ request[p].route = "export_list_pdf"
    /\ pc[p] = "returned"
    /\ IF txn[p].state = "active"
       THEN /\ CommitRequest(p)
            /\ Answer(p, IF ret[p] THEN "pdf" ELSE "deduction_failed")
       ELSE /\ Answer(p, "error")
            /\ UNCHANGED <<store, decrements, shopping_lists, shopping_items>>
    /\ txn' = [txn EXCEPT ![p] = NoTxn]
    /\ ended' = [ended EXCEPT ![p] = TRUE]
    /\ work' = [work EXCEPT ![p] = NoWork]
    /\ pc' = [pc EXCEPT ![p] = "done"]
    /\ UNCHANGED <<locals, ret, outcome, errs, init_balance, faults,
                   budgets, creating>>

\* The commit of export_list_pdf raises (shopping.py:1449-1456).
ExportListPdfEndFails(p, kind) ==
    /\ request[p].route = "export_list_pdf"
    /\ pc[p] = "returned"
    /\ txn[p].state = "active"
    /\ Fault(kind)
    /\ Answer(p, "error")
    /\ txn' = [txn EXCEPT ![p] = NoTxn]
    /\ ended' = [ended EXCEPT ![p] = TRUE]
    /\ work' = [work EXCEPT ![p] = NoWork]
    /\ pc' = [pc EXCEPT ![p] = "done"]
    /\ UNCHANGED <<store, locals, ret, outcome, history,
                   budgets, creating, shopping_lists, shopping_items>>

\* shopping.py:1946-1954: export_pdf sends the PDF when the routine
\* returned True.
ExportPdfEnd(p) ==
    /\ request[p].at = "calling"
    /\ request[p].route = "export_pdf"
    /\ pc[p] = "done"
    /\ Answer(p, IF ret[p] THEN "pdf" ELSE "deduction_failed")
    /\ UNCHANGED <<store, locals, control, sessions, history, faults,
                   budgets, creating, shopping_lists, shopping_items, work>>

\* The steps of the deduction routine, whoever called it.
\* The steps of the deduction on a session the caller passed.
CallerRoutineNext ==
    \/ \E p \in Procs : Check(p)
    \/ \E p \in Procs, kind \in ErrorKinds : CheckFails(p, kind)
    \/ \E p \in Procs : Update(p)
    \/ \E p \in Procs, kind \in ErrorKinds : UpdateFails(p, kind)
    \/ \E p \in Procs : InsertLedger(p)
    \/ \E p \in Procs : InsertAudit(p)
    \/ \E p \in Procs, kind \in ErrorKinds : InsertFails(p, kind)

RoutineNext ==
    \/ CallerRoutineNext
    \/ \E p \in Procs : CommitOwn(p)
    \/ \E p \in Procs, kind \in ErrorKinds : CommitFails(p, kind)

\* The stored records the requests start from: a budget and a list of the
\* user and of another user, each list with one item.
RequestInit ==
    /\ InitCredits
    /\ budgets = BudgetIds
    /\ creating = [p \in Procs |-> FALSE]
    /\ \E s \in {"active", "saved"} :
          shopping_lists =
             [l \in ListIds |->
                 [user_id |-> IF l = "L1" THEN current_user ELSE other_user,
                  status |-> IF l = "L1" THEN s ELSE "saved",
                  total_spent |-> 1]]
    /\ shopping_items =
          [i \in {1, 2} |->
              [list_id |-> IF i = 1 THEN "L1" ELSE "L2", name |-> "milk", cost |-> 1]]
    /\ request = [p \in Procs |-> NoRequest]
    /\ work = [p \in Procs |-> NoWork]

RequestNext ==
    \/ RoutineNext
    \/ \E p \in Procs, r \in {"delete", "delete_budget"}, b \in BudgetIds :
          BudgetDeleteBegin(p, r, b)
    \/ \E p \in Procs : BudgetDeleteOne(p)
    \/ \E p \in Procs : BudgetDeleteCall(p)
    \/ \E p \in Procs : BudgetDeleteEnd(p)
    \/ \E p \in Procs, r \in {"new.delete_list", "delete_list"}, l \in ListIds :
          DeleteListBegin(p, r, l)
    \/ \E p \in Procs : DeleteListTxn(p)
    \/ \E p \in Procs : DeleteListCall(p)
    \/ \E p \in Procs : DeleteListEnd(p)
    \/ \E p \in Procs, kind \in ErrorKinds : DeleteListEndFails(p, kind)
    \/ \E p \in Procs : DeleteListItems(p)
    \/ \E p \in Procs : DeleteListOne(p)
    \/ \E p \in Procs : DeleteListRouteEnd(p)
    \/ \E p \in Procs, kind \in ErrorKinds : DeleteFails(p, kind)
    \/ \E p \in Procs, r \in {"export_list_pdf", "export_pdf"}, l \in ListIds :
          ExportBegin(p, r, l)
    \/ \E p \in Procs : ExportListPdfTxn(p)
    \/ \E p \in Procs : ExportCall(p)
    \/ \E p \in Procs : ExportListPdfEnd(p)
    \/ \E p \in Procs, kind \in ErrorKinds : ExportListPdfEndFails(p, kind)
    \/ \E p \in Procs : ExportPdfEnd(p)
    \/ \E u \in Registered : DeleteUser(u)

RequestSpec == RequestInit /\ [][RequestNext]_vars


(***************************************************************************)
(* The requests of a user who is not an admin that create a shopping list  *)
(* and add, edit or delete its items (shopping.py: handlers new,           *)
(* manage_list, edit_list).  request[p].form holds what the user           *)
(* submitted, request[p].local the handler's local variables.              *)
(***************************************************************************)

Names == {"milk", "rice", "Rice"}

\* str.lower() on the names of the model.
Lower(n) == IF n = "Rice" THEN "rice" ELSE n

\* The default of the form field new_item_status_<i> (shopping.py:546,
\* 641, 1082).
item_status == "to_buy"

\* The id of the i-th item request p creates (ObjectId()).
NewItemId(p, i) == 10 * p + i

\* The names of the new items a request submits: none, one, two that
\* differ in case only, or the name of the item the list starts with.
NewItemForms == {<<>>, <<"rice">>, <<"rice", "Rice">>, <<"milk">>}

\* The forms of save_list_changes: new items, the save_list button, an
\* item to delete (0: none), an item to edit (0: none) with its new name
\* and cost.
SaveForms ==
    {f \in [new_items : {<<>>, <<"rice", "Rice">>}, save_list : BOOLEAN,
            item_id : {0, 1}, edit_item_id : {0, 1}, edit_name : {"rice"},
            edit_cost : {2}] :
        ~(f.item_id # 0 /\ f.edit_item_id # 0)}

\* The forms of edit_list: the item to add, or the item to update with its
\* new values, or the item to delete.
EditForms ==
    [new_items : {<<>>}, save_list : {FALSE}, item_id : {0, 1},
     edit_item_id : {0, 1}, edit_name : {"milk", "rice"}, edit_cost : {2}]

RECURSIVE SumCost(_, _)
SumCost(items, ids) ==
    IF ids = {} THEN 0
    ELSE LET i == CHOOSE x \in ids : TRUE
         IN items[i].cost + SumCost(items, ids \ {i})

\* shopping.py:596, 692, 1164, 1216, 1596:
\* sum(item['price'] * item['quantity'] for item in items)
total_spent(items, l) == SumCost(items, ItemsOf(items, l))

\* shopping.py:534-535: {item['name'].lower() for item in existing_items}
existing_names(items, l) == {Lower(items[i].name) : i \in ItemsOf(items, l)}

\* shopping.py:550-553, 646-649, 1086-1089: a new name that is among the
\* existing names of the list.
Duplicate(names, existing) ==
    \E i \in DOMAIN names : Lower(names[i]) \in existing

\* create_shopping_item for each new item (shopping.py:589, 685, 1158);
\* the call is given no session, the items are stored at once.
WithNewItems(items, p, l, names) ==
    [i \in DOMAIN items \cup {NewItemId(p, k) : k \in DOMAIN names} |->
        IF i \in DOMAIN items THEN items[i]
        ELSE [list_id |-> l, name |-> names[i - 10 * p], cost |-> 1]]

NoLocal == [list_status |-> "", new_status |-> "", operations |-> 0,
            total_spent |-> 0]

ListRequest(r, l, f, at, sent, local) ==
    [route |-> r, id |-> l, at |-> at, status |-> "", sent |-> sent,
     form |-> f, local |-> local]

InTransaction(p) == txn[p].state = "active"

\* What the handler's transaction reads: its snapshot with its own writes
\* once it has made its first operation, the stored documents before.
ViewItems(p) == IF InTransaction(p) THEN work[p].items ELSE shopping_items
ViewLists(p) == IF InTransaction(p) THEN work[p].lists ELSE shopping_lists
WorkOf(p) ==
    IF InTransaction(p) THEN work[p]
    ELSE [lists |-> shopping_lists, items |-> shopping_items,
          wrote_lists |-> {}, wrote_items |-> {}]

\* The list changed after the transaction's snapshot, or another open
\* transaction has written it: the update raises a write conflict.
ListConflict(p, l) ==
    \/ ListLocked(p, l)
    \/ InTransaction(p) /\ l \notin work[p].wrote_lists
          /\ (l \in DOMAIN shopping_lists) # (l \in DOMAIN work[p].lists)
    \/ InTransaction(p) /\ l \notin work[p].wrote_lists
          /\ l \in DOMAIN shopping_lists /\ l \in DOMAIN work[p].lists
          /\ shopping_lists[l] # work[p].lists[l]

\* An exception leaves the handler's with-block: the transaction is
\* aborted and the handler answers with an error (shopping.py:608-615,
\* 706-713, 1198-1205, 1229-1236).
AbortRequest(p) ==
    /\ txn' = [txn EXCEPT ![p] = NoTxn]
    /\ work' = [work EXCEPT ![p] = NoWork]
    /\ Answer(p, "error")
    /\ pc' = [pc EXCEPT ![p] = "done"]

\* shopping.py:441-473 (handler new, action create_list): the list is
\* stored with status 'active' and no items.
CreateList(p, l) ==
    /\ pc[p] = "idle" /\ request[p].at = "none"
    /\ l \notin DOMAIN shopping_lists
    /\ \A q \in Procs : request[q].id # l
    /\ shopping_lists' =
          [x \in DOMAIN shopping_lists \cup {l} |->
              IF x = l THEN [user_id |-> current_user, status |-> "active",
                             total_spent |-> 0]
              ELSE shopping_lists[x]]
    /\ request' = [request EXCEPT ![p] =
                     ListRequest("create_list", l, NoForm, "over", "created", NoLocal)]
    /\ pc' = [pc EXCEPT ![p] = "done"]
    /\ UNCHANGED <<store, locals, ret, outcome, sessions, history, faults,
                   budgets, creating, shopping_items, work>>

\* shopping.py:525-553 (add_items) and 618-649 (save_list) of the handler
\* new: the list lookup and the check of the new names against the names
\* stored for the list.
AddItemsBegin(p, r, l, names) ==
    /\ pc[p] = "idle" /\ request[p].at = "none"
    /\ r \in {"add_items", "save_list"}
    /\ LET found == /\ l \in DOMAIN shopping_lists
                    /\ filter_criteria(shopping_lists[l].user_id)
           proceed == found /\ ~Duplicate(names, existing_names(shopping_items, l))
       IN /\ request' = [request EXCEPT ![p] =
                ListRequest(r, l, [NoForm EXCEPT !.new_items = names],
                            IF proceed THEN "checked" ELSE "over",
                            IF proceed THEN "none" ELSE "refused", NoLocal)]
          /\ pc' = [pc EXCEPT ![p] = IF proceed THEN "idle" ELSE "done"]
    /\ UNCHANGED <<store, locals, ret, outcome, sessions, history, faults,
                   budgets, creating, shopping_lists, shopping_items, work>>

\* shopping.py:562-593 and 658-689: the new items are created one by one;
\* with none added the with-block ends and the request is over.
AddItemsInsert(p) ==
    /\ pc[p] = "idle" /\ request[p].at = "checked"
    /\ request[p].route \in {"add_items", "save_list"}
    /\ LET names == request[p].form.new_items
       IN /\ shopping_items' = WithNewItems(shopping_items, p, request[p].id, names)
          /\ IF names = <<>>
             THEN /\ Answer(p, "nothing_added")
                  /\ pc' = [pc EXCEPT ![p] = "done"]
             ELSE /\ request' = [request EXCEPT ![p].at = "inserted",
                                                ![p].local.operations = Len(names)]
                  /\ UNCHANGED pc
    /\ UNCHANGED <<store, locals, ret, outcome, sessions, history, faults,
                   budgets, creating, shopping_lists, work>>

\* shopping.py:594-601 and 690-697: the first operations of the handler's
\* transaction: the items of the list are read and total_spent is set,
\* with 'status': 'saved' by save_list.  save_list goes on to the
\* deduction, add_items to the end of the with-block.
AddItemsTotal(p) ==
    /\ pc[p] = "idle" /\ request[p].at = "inserted"
    /\ request[p].route \in {"add_items", "save_list"}
    /\ LET l == request[p].id
           r == request[p].route
           total == total_spent(shopping_items, l)
       IN IF ListLocked(p, l)
          THEN AbortRequest(p) /\ UNCHANGED <<mongo_session, variant>>
          ELSE /\ StartTransaction(p)
               /\ work' = [work EXCEPT ![p] =
                    [lists |-> IF l \in DOMAIN shopping_lists
                               THEN [shopping_lists EXCEPT
                                       ![l].total_spent = total,
                                       ![l].status = IF r = "save_list" THEN "saved" ELSE @]
                               ELSE shopping_lists,
                     items |-> shopping_items,
                     wrote_lists |-> {l} \cap DOMAIN shopping_lists,
                     wrote_items |-> {}]]
               /\ request' = [request EXCEPT
                                ![p].at = IF r = "save_list" THEN "calling" ELSE "return",
                                ![p].local.total_spent = total]
               /\ pc' = [pc EXCEPT ![p] = "caller"]
    /\ UNCHANGED <<store, user_id, amount, amt, current_balance, attempt,
                   ret, outcome, ended, history, faults,
                   budgets, creating, shopping_lists, shopping_items>>

\* shopping.py:1049-1089 (manage_list, action save_list_changes): the list
\* lookup, whose result the handler keeps, and the check of the new names.
SaveChangesBegin(p, l, f) ==
    /\ pc[p] = "idle" /\ request[p].at = "none"
    /\ LET found == /\ l \in DOMAIN shopping_lists
                    /\ filter_criteria(shopping_lists[l].user_id)
           proceed == found /\ ~Duplicate(f.new_items, existing_names(shopping_items, l))
       IN /\ request' = [request EXCEPT ![p] =
                ListRequest("save_list_changes", l, f,
                            IF proceed THEN "checked" ELSE "over",
                            IF proceed THEN "none" ELSE "refused",
                            [NoLocal EXCEPT !.list_status =
                                IF found THEN shopping_lists[l].status ELSE ""])]
          /\ pc' = [pc EXCEPT ![p] = IF proceed THEN "idle" ELSE "done"]
    /\ UNCHANGED <<store, locals, ret, outcome, sessions, history, faults,
                   budgets, creating, shopping_lists, shopping_items, work>>

\* shopping.py:1094-1130: new_status, then the delete of item_id and the
\* update of edit_item_id inside the handler's transaction.  The name
\* check of the edited item reads the stored item without the session; a
\* duplicate name leaves the with-block by `return`, which commits.
SaveChangesEdit(p) ==
    /\ pc[p] = "idle" /\ request[p].at = "checked"
    /\ request[p].route = "save_list_changes"
    /\ LET l == request[p].id
           f == request[p].form
           del == IF f.item_id # 0 THEN {f.item_id} \cap ItemsOf(shopping_items, l) ELSE {}
           edit == IF f.edit_item_id # 0 THEN {f.edit_item_id} \cap ItemsOf(shopping_items, l)
                   ELSE {}
           status == IF f.save_list THEN "saved" ELSE request[p].local.list_status
           ops == (IF f.item_id # 0 THEN 1 ELSE 0) + (IF f.edit_item_id # 0 THEN 1 ELSE 0)
           dup == /\ edit # {}
                  /\ Lower(f.edit_name) \in existing_names(shopping_items, l)
                  /\ Lower(f.edit_name) # Lower(shopping_items[f.edit_item_id].name)
           edited == [i \in DOMAIN shopping_items \ del |->
                         IF i \in edit
                         THEN [shopping_items[i] EXCEPT !.name = f.edit_name,
                                                        !.cost = f.edit_cost]
                         ELSE shopping_items[i]]
       IN IF f.item_id = 0 /\ f.edit_item_id = 0
          THEN \* no operation yet on the session
               /\ request' = [request EXCEPT ![p].at = "edited",
                                             ![p].local.new_status = status]
               /\ UNCHANGED <<pc, txn, mongo_session, variant, work>>
          ELSE IF ItemLocked(p, del \cup edit) \/ (f.edit_item_id # 0 /\ edit = {})
          THEN \* write conflict, or find_one(...)['name'] on no document
               AbortRequest(p) /\ UNCHANGED <<mongo_session, variant>>
          ELSE /\ StartTransaction(p)
               /\ work' = [work EXCEPT ![p] =
                    [lists |-> shopping_lists,
                     items |-> IF dup THEN shopping_items ELSE edited,
                     wrote_lists |-> {},
                     wrote_items |-> IF dup THEN {} ELSE del \cup edit]]
               /\ request' = [request EXCEPT
                                ![p].at = IF dup THEN "return" ELSE "edited",
                                ![p].local.new_status = status,
                                ![p].local.operations = ops]
               /\ pc' = [pc EXCEPT ![p] = "caller"]
    /\ UNCHANGED <<store, user_id, amount, amt, current_balance, attempt,
                   ret, outcome, ended, history, faults,
                   budgets, creating, shopping_lists, shopping_items>>

\* shopping.py:1131-1162: the new items are created one by one, without
\* the session; line 1137 assigns the item's status to new_status.
SaveChangesInsert(p) ==
    /\ request[p].at = "edited"
    /\ request[p].route = "save_list_changes"
    /\ LET names == request[p].form.new_items
       IN /\ shopping_items' = WithNewItems(shopping_items, p, request[p].id, names)
          /\ request' = [request EXCEPT
                ![p].at = "inserted",
                ![p].local.operations = @ + Len(names),
                ![p].local.new_status = IF names = <<>> THEN @ ELSE item_status]
    /\ UNCHANGED <<store, locals, control, sessions, history, faults,
                   budgets, creating, shopping_lists, work>>

\* shopping.py:1163-1186: the items are read on the session, the list is
\* updated with total_spent and new_status; with at least one operation
\* the balance is checked and the deduction follows.
SaveChangesTotal(p) ==
    /\ request[p].at = "inserted"
    /\ request[p].route = "save_list_changes"
    /\ LET l == request[p].id
           w == WorkOf(p)
           total == total_spent(w.items, l)
           charge == request[p].local.operations > 0
       IN IF ListConflict(p, l)
          THEN AbortRequest(p) /\ UNCHANGED <<mongo_session, variant>>
          ELSE /\ IF InTransaction(p)
                  THEN UNCHANGED <<txn, mongo_session, variant>>
                  ELSE StartTransaction(p)
               /\ work' = [work EXCEPT ![p] =
                    [w EXCEPT
                       !.lists = IF l \in DOMAIN w.lists
                                 THEN [w.lists EXCEPT
                                         ![l].total_spent = total,
                                         ![l].status = request[p].local.new_status]
                                 ELSE w.lists,
                       !.wrote_lists = @ \cup ({l} \cap DOMAIN w.lists)]]
               /\ request' = [request EXCEPT
                                ![p].at = IF charge /\ HasCredits(current_user, 1 * Unit)
                                          THEN "calling" ELSE "return",
                                ![p].local.total_spent = total]
               /\ pc' = [pc EXCEPT ![p] = "caller"]
    /\ UNCHANGED <<store, user_id, amount, amt, current_balance, attempt,
                   ret, outcome, ended, history, faults,
                   budgets, creating, shopping_lists, shopping_items>>

\* shopping.py:1206-1221 (manage_list, action delete_item): the list
\* lookup of line 1049, then inside the handler's transaction delete_one
\* of the item, the read of the items and the update of total_spent.
ManageDeleteItem(p, l, i) ==
    /\ pc[p] = "idle" /\ request[p].at = "none"
    /\ LET found == /\ l \in DOMAIN shopping_lists
                    /\ filter_criteria(shopping_lists[l].user_id)
           del == {i} \cap ItemsOf(shopping_items, l)
           kept == Without(shopping_items, del)
           total == total_spent(kept, l)
           r == ListRequest("delete_item", l, [NoForm EXCEPT !.item_id = i],
                            "calling", "none", [NoLocal EXCEPT !.total_spent = total])
       IN IF ~found
          THEN /\ request' = [request EXCEPT ![p] =
                                [r EXCEPT !.at = "over", !.sent = "refused"]]
               /\ pc' = [pc EXCEPT ![p] = "done"]
               /\ UNCHANGED <<txn, mongo_session, variant, work>>
          ELSE IF ItemLocked(p, del) \/ ListLocked(p, l)
          THEN /\ request' = [request EXCEPT ![p] =
                                [r EXCEPT !.at = "over", !.sent = "error"]]
               /\ pc' = [pc EXCEPT ![p] = "done"]
               /\ UNCHANGED <<txn, mongo_session, variant, work>>
          ELSE /\ StartTransaction(p)
               /\ work' = [work EXCEPT ![p] =
                    [lists |-> [shopping_lists EXCEPT ![l].total_spent = total],
                     items |-> kept, wrote_lists |-> {l}, wrote_items |-> del]]
               /\ request' = [request EXCEPT ![p] = r]
               /\ pc' = [pc EXCEPT ![p] = "caller"]
    /\ UNCHANGED <<store, user_id, amount, amt, current_balance, attempt,
                   ret, outcome, ended, history, faults,
                   budgets, creating, shopping_lists, shopping_items>>

\* shopping.py:699, 1184, 1223: the deduction of 1 credit on the handler's
\* session.
ListCall(p) ==
    /\ request[p].at = "calling"
    /\ request[p].route \in {"save_list", "save_list_changes", "delete_item"}
    /\ pc[p] = "caller"
    /\ Invoke(p, "shopping", current_user, 1 * Unit)

\* The handler leaves its with-block: at its end, or by one of the
\* `return redirect(...)` inside it (shopping.py:701, 1099, 1121, 1183,
\* 1186, 1192, 1225); both ways the context manager commits.  Committing
\* a transaction the server has aborted raises.
ListEnd(p) ==
    /\ request[p].route \in {"add_items", "save_list", "save_list_changes", "delete_item"}
    /\ \/ request[p].at = "return" /\ pc[p] = "caller"
       \/ request[p].at = "calling" /\ pc[p] = "returned"
    /\ IF InTransaction(p)
       THEN /\ CommitRequest(p)
            /\ Answer(p, IF request[p].at = "calling" /\ ~ret[p]
                         THEN "deduction_failed" ELSE "saved")
       ELSE /\ Answer(p, "error")
            /\ UNCHANGED <<store, decrements, shopping_lists, shopping_items>>
    /\ txn' = [txn EXCEPT ![p] = NoTxn]
    /\ ended' = [ended EXCEPT ![p] = TRUE]
    /\ work' = [work EXCEPT ![p] = NoWork]
    /\ pc' = [pc EXCEPT ![p] = "done"]
    /\ UNCHANGED <<locals, ret, outcome, errs, init_balance, faults,
                   budgets, creating>>

\* A storage operation of a list handler raises, the commit included: the
\* transaction is aborted, what was stored without the session stays.
ListFails(p, kind) ==
    /\ request[p].route \in {"add_items", "save_list", "save_list_changes", "delete_item"}
    /\ \/ request[p].at \in {"checked", "edited", "inserted", "return"}
       \/ request[p].at = "calling" /\ pc[p] = "returned" /\ InTransaction(p)
    /\ Fault(kind)
    /\ AbortRequest(p)
    /\ ended' = [ended EXCEPT ![p] = InTransaction(p)]
    /\ UNCHANGED <<store, locals, ret, outcome, history,
                   budgets, creating, shopping_lists, shopping_items>>

\* shopping.py:1510-1519 (edit_list): the list lookup.
EditListBegin(p, r, l, f) ==
    /\ pc[p] = "idle" /\ request[p].at = "none"
    /\ r \in {"edit.add_item", "edit.update_item", "edit.delete_item"}
    /\ r = "edit.add_item" => f.item_id = 0 /\ f.edit_item_id = 0
    /\ r = "edit.update_item" => f.item_id = 0 /\ f.edit_item_id # 0
    /\ r = "edit.delete_item" => f.item_id # 0 /\ f.edit_item_id = 0 /\ f.edit_name = "milk"
    /\ LET found == /\ l \in DOMAIN shopping_lists
                    /\ filter_criteria(shopping_lists[l].user_id)
       IN /\ request' = [request EXCEPT ![p] =
                ListRequest(r, l, f, IF found THEN "found" ELSE "over",
                            IF found THEN "none" ELSE "refused", NoLocal)]
          /\ pc' = [pc EXCEPT ![p] = IF found THEN "idle" ELSE "done"]
    /\ UNCHANGED <<store, locals, ret, outcome, sessions, history, faults,
                   budgets, creating, shopping_lists, shopping_items, work>>

\* shopping.py:1593 insert_one, 1630-1635 update_one and modified_count,
\* 1658-1660 delete_one and deleted_count: issued without a session, they
\* wait for the transactions that wrote the item.
EditListWrite(p) ==
    /\ pc[p] = "idle" /\ request[p].at = "found"
    /\ request[p].route \in {"edit.add_item", "edit.update_item", "edit.delete_item"}
    /\ LET l == request[p].id
           f == request[p].form
           r == request[p].route
           hit == {IF r = "edit.update_item" THEN f.edit_item_id ELSE f.item_id}
                     \cap ItemsOf(shopping_items, l)
       IN /\ ~ItemLocked(p, hit)
          /\ IF r = "edit.add_item"
             THEN /\ shopping_items' =
                       [i \in DOMAIN shopping_items \cup {NewItemId(p, 1)} |->
                           IF i \in DOMAIN shopping_items THEN shopping_items[i]
                           ELSE [list_id |-> l, name |-> f.edit_name,
                                 cost |-> f.edit_cost]]
                  /\ request' = [request EXCEPT ![p].at = "written"]
                  /\ UNCHANGED pc
             ELSE IF hit = {}
             THEN /\ Answer(p, "not_found")
                  /\ pc' = [pc EXCEPT ![p] = "done"]
                  /\ UNCHANGED shopping_items
             ELSE /\ shopping_items' =
                       IF r = "edit.delete_item" THEN Without(shopping_items, hit)
                       ELSE [shopping_items EXCEPT
                               ![f.edit_item_id].name = f.edit_name,
                               ![f.edit_item_id].cost = f.edit_cost]
                  /\ request' = [request EXCEPT ![p].at = "written"]
                  /\ UNCHANGED pc
    /\ UNCHANGED <<store, locals, ret, outcome, sessions, history, faults,
                   budgets, creating, shopping_lists, work>>

\* shopping.py:1596-1597, 1637-1638, 1662-1663: the items of the list are
\* read and summed.
EditListFind(p) ==
    /\ pc[p] = "idle" /\ request[p].at = "written"
    /\ request' = [request EXCEPT
                     ![p].at = "counted",
                     ![p].local.total_spent = total_spent(shopping_items, request[p].id)]
    /\ UNCHANGED <<store, locals, control, sessions, history, faults,
                   budgets, creating, shopping_lists, shopping_items, work>>

\* shopping.py:1598-1601, 1639-1642, 1664-1667: update_one sets
\* total_spent, without a session.
EditListSet(p) ==
    /\ pc[p] = "idle" /\ request[p].at = "counted"
    /\ LET l == request[p].id
       IN /\ ~ListLocked(p, l)
          /\ shopping_lists' =
                IF l \in DOMAIN shopping_lists
                THEN [shopping_lists EXCEPT ![l].total_spent = request[p].local.total_spent]
                ELSE shopping_lists
    /\ Answer(p, "saved")
    /\ pc' = [pc EXCEPT ![p] = "done"]
    /\ UNCHANGED <<store, locals, ret, outcome, sessions, history, faults,
                   budgets, creating, shopping_items, work>>

\* A storage operation of edit_list raises (shopping.py:1606-1608,
\* 1650-1652, 1675-1677): what was written before stays.
EditListFails(p, kind) ==
    /\ pc[p] = "idle"
    /\ request[p].route \in {"edit.add_item", "edit.update_item", "edit.delete_item"}
    /\ request[p].at \in {"found", "written", "counted"}
    /\ Fault(kind)
    /\ Answer(p, "error")
    /\ pc' = [pc EXCEPT ![p] = "done"]
    /\ UNCHANGED <<store, locals, ret, outcome, sessions, history,
                   budgets, creating, shopping_lists, shopping_items, work>>

\* The stored records the list requests start from: the user has one
\* credit and a list, active or saved, with one item.
ListInit ==
    /\ InitCredits
    /\ users = [u \in Registered |-> 1 * Unit]
    /\ budgets = {}
    /\ creating = [p \in Procs |-> FALSE]
    /\ \E s \in {"active", "saved"} :
          shopping_lists =
             [l \in {"L1"} |->
                 [user_id |-> current_user, status |-> s, total_spent |-> 1]]
    /\ shopping_items =
          [i \in {1} |-> [list_id |-> "L1", name |-> "milk", cost |-> 1]]
    /\ request = [p \in Procs |-> NoRequest]
    /\ work = [p \in Procs |-> NoWork]

ListNext ==
    \/ CallerRoutineNext
    \/ \E p \in Procs, l \in ListIds : CreateList(p, l)
    \/ \E p \in Procs, r \in {"add_items", "save_list"}, l \in ListIds,
          names \in NewItemForms : AddItemsBegin(p, r, l, names)
    \/ \E p \in Procs : AddItemsInsert(p)
    \/ \E p \in Procs : AddItemsTotal(p)
    \/ \E p \in Procs, l \in ListIds, f \in SaveForms : SaveChangesBegin(p, l, f)
    \/ \E p \in Procs : SaveChangesEdit(p)
    \/ \E p \in Procs : SaveChangesInsert(p)
    \/ \E p \in Procs : SaveChangesTotal(p)
    \/ \E p \in Procs, l \in ListIds, i \in {1} : ManageDeleteItem(p, l, i)
    \/ \E p \in Procs : ListCall(p)
    \/ \E p \in Procs : ListEnd(p)
    \/ \E p \in Procs, kind \in ErrorKinds : ListFails(p, kind)
    \/ \E p \in Procs,
          r \in {"edit.add_item", "edit.update_item", "edit.delete_item"},
          l \in ListIds, f \in EditForms : EditListBegin(p, r, l, f)
    \/ \E p \in Procs : EditListWrite(p)
    \/ \E p \in Procs : EditListFind(p)
    \/ \E p \in Procs : EditListSet(p)
    \/ \E p \in Procs, kind \in ErrorKinds : EditListFails(p, kind)

ListSpec == ListInit /\ [][ListNext]_vars


(***************************************************************************)
(* What a call has left in the store.                                      *)
(***************************************************************************)

RECURSIVE Total(_)
Total(ds) ==
    IF ds = <<>> THEN 0
    ELSE (Head(ds).before - Head(ds).after) + Total(Tail(ds))

\* The total by which the committed writes of call p lowered the balance.
Charged(p) == Total(decrements[p])

\* The visible ledger entries of call p with the given status.
Entries(p, status) ==
    {i \in DOMAIN ledger : ledger[i].call = p /\ ledger[i].status = status}

\* The visible audit entries of call p.
Audits(p) == {i \in DOMAIN audit : audit[i].call = p}

Called(p) == pc[p] \notin {"idle", "caller"}
Returned(p) == pc[p] \in {"returned", "done"}
Finished(p) == pc[p] = "done"

ErrorAt(p, places) == \E i \in DOMAIN errs[p] : errs[p][i].at \in places

\* The call got as far as reading the balance for its pre-check.
PreChecked(p) ==
    /\ pc[p] \notin {"idle", "caller", "Checking"}
    /\ outcome[p] \notin {"InvalidArgument", "NotFound"}
    /\ ~ErrorAt(p, {"Checking"})

NothingStored(p) ==
    /\ decrements[p] = <<>>
    /\ Entries(p, "completed") = {}
    /\ Entries(p, "failed") = {}
    /\ Audits(p) = {}

(***************************************************************************)
(* C1.  A deduct call that returns true has lowered the stored balance by  *)
(* exactly the amount it was called with, and has added exactly one        *)
(* completed ledger entry and exactly one audit entry.                     *)
(***************************************************************************)
C1_SuccessDecrementsExactly ==
    \A p \in Procs :
        (Finished(p) /\ ret[p]) =>
            /\ Len(decrements[p]) = 1
            /\ Charged(p) = amount[p]
            /\ Cardinality(Entries(p, "completed")) = 1
            /\ Cardinality(Audits(p)) = 1

(***************************************************************************)
(* C2.  In every reachable state no user's credit balance is negative      *)
(* (every initial balance is non-negative).                                *)
(***************************************************************************)
C2_BalanceNeverNegative == \A u \in DOMAIN users : users[u] >= 0


(***************************************************************************)
(* C3.  One deduct call, whatever its retries and the errors in between,   *)
(* lowers the balance at most once and by no more than its amount, and     *)
(* leaves at most one completed ledger entry; the same holds of the writes *)
(* still pending in its transaction.                                       *)
(***************************************************************************)
PendingCharge(p) ==
    IF txn[p].state = "active" /\ user_id[p] \in DOMAIN txn[p].bal
    THEN txn[p].snap[user_id[p]] - txn[p].bal[user_id[p]]
    ELSE 0

PendingCompleted(p) ==
    {i \in DOMAIN txn[p].led : txn[p].led[i].status = "completed"}

C3_NoDoubleCharge ==
    \A p \in Procs :
        LET most == IF amount[p] > 0 THEN amount[p] ELSE 0
        IN /\ Len(decrements[p]) <= 1
           /\ Charged(p) + PendingCharge(p) <= most
           /\ Cardinality(Entries(p, "completed"))
                + Cardinality(PendingCompleted(p)) <= 1

\* A call used all its attempts after an error that followed its
\* decrement, and another call was charged.
C3_Witness ==
    \E p, q \in Procs :
        /\ Finished(p) /\ attempt[p] = max_retries - 1
        /\ ErrorAt(p, {"InsertLedger", "InsertAudit"})
        /\ Finished(q) /\ ret[q] /\ Len(decrements[q]) = 1

C5_ExactlyFloorSucceed ==
    LET a == amount[1]
        B == init_balance["u1"]
    IN  ( /\ \A p \in Procs :
                Finished(p) /\ user_id[p] = "u1" /\ amount[p] = a
          /\ a > 0
          /\ \A p \in Procs : amt[p] = a
          /\ NumCalls * a > B
          /\ faults = 0
          /\ "u1" \in DOMAIN users )
        => /\ Cardinality({p \in Procs : ret[p]}) = B \div a
           /\ users["u1"] >= 0

(***************************************************************************)
(* C6.  After all NumCalls calls have deducted the same amount a from one  *)
(* user and have all returned true, the stored balance is the starting     *)
(* balance minus NumCalls * a.                                             *)
(***************************************************************************)
C6_NoLostDecrement ==
    LET a == amount[1]
    IN  ( /\ \A p \in Procs :
                Finished(p) /\ ret[p] /\ user_id[p] = "u1" /\ amount[p] = a
          /\ "u1" \in DOMAIN users )
        => users["u1"] = init_balance["u1"] - NumCalls * a

(***************************************************************************)
(* C7.  For every visible completed ledger entry, the audit entry of the   *)
(* same deduction records as previous_balance the balance stored just      *)
(* before that deduction's decrement and as new_balance the balance stored *)
(* just after it.                                                          *)
(***************************************************************************)
C7_AuditMatchesStoredBalance ==
    \A p \in Procs :
        Entries(p, "completed") # {} =>
            /\ decrements[p] # <<>>
            /\ \A j \in Audits(p) :
                  /\ audit[j].previous_balance = decrements[p][1].before
                  /\ audit[j].new_balance = decrements[p][1].after

(***************************************************************************)
(* C8.  A deduct call with amount <= 0 returns false at once, and leaves   *)
(* no ledger entry, no audit entry and no change of any balance, visible   *)
(* or pending.                                                             *)
(***************************************************************************)
C8_NonPositiveAmountRejected ==
    \A p \in Procs :
        (Called(p) /\ amount[p] <= 0) =>
            /\ Returned(p)
            /\ ~ret[p]
            /\ NothingStored(p)
            /\ txn[p].bal = EmptyDocs /\ txn[p].led = <<>> /\ txn[p].aud = <<>>

\* Both variants have returned from a call with a non-positive amount for
\* a registered user who has credits.
C8_Witness ==
    \E p, q \in Procs :
        /\ Finished(p) /\ variant[p] = "budget" /\ amount[p] < 0
        /\ Finished(q) /\ variant[q] = "shopping" /\ amount[q] = 0
        /\ user_id[p] = "u1" /\ user_id[q] = "u1"
        /\ "u1" \in DOMAIN users /\ users["u1"] > 0

(***************************************************************************)
(* C9.  A deduct call whose pre-check read a balance lower than the amount *)
(* it was called with returns false and stores nothing.                    *)
(***************************************************************************)
C9_InsufficientBalanceRejected ==
    \A p \in Procs :
        (PreChecked(p) /\ current_balance[p] < amount[p]) =>
            /\ Returned(p)
            /\ ~ret[p]
            /\ NothingStored(p)

(***************************************************************************)
(* C10.  A deduct call for a user id that has no user record returns false *)
(* and stores nothing, however often it is repeated.                       *)
(***************************************************************************)
C10_UnknownUserNoEffect ==
    \A p \in Procs :
        (Called(p) /\ user_id[p] \notin Registered) =>
            /\ Returned(p) => ~ret[p]
            /\ NothingStored(p)
            /\ txn[p].bal = EmptyDocs /\ txn[p].led = <<>> /\ txn[p].aud = <<>>

\* Every call was made for the unknown user u404 with a valid amount, in
\* both variants and with a caller's session, and each was turned down for
\* the missing record.
C10_Witness ==
    /\ \A p \in Procs :
          Finished(p) /\ user_id[p] = "u404" /\ outcome[p] = "NotFound"
    /\ \E p, q \in Procs : variant[p] = "budget" /\ mongo_session[q]
    /\ users = init_balance /\ ledger = <<>> /\ audit = <<>>

(***************************************************************************)
(* Calls made one after the other (SeqSpec).  While a request runs, no     *)
(* other request changes the store, so the balance found stored at the     *)
(* step that ends the request of a call is the balance that was stored     *)
(* when the call was made, until that step itself commits the call's       *)
(* writes.                                                                 *)
(***************************************************************************)

\* This step ends the request of call p; the call was for the user u1,
\* whose record is there, and no storage error has been injected.
EndsNoError(p) ==
    /\ pc[p] # "done" /\ pc'[p] = "done"
    /\ faults' = 0
    /\ user_id'[p] = "u1" /\ "u1" \in DOMAIN users /\ "u1" \in DOMAIN users'

\* Call p succeeded exactly when the balance covered its amount; a success
\* lowered the balance by the amount and added one completed ledger entry
\* of minus the amount, a failure left balance and ledger as they were.
SucceedsIffCovered(p) ==
    /\ ret'[p] <=> users["u1"] >= amount'[p]
    /\ ret'[p] =>
          /\ users'["u1"] = users["u1"] - amount'[p]
          /\ Len(ledger') = Len(ledger) + 1
          /\ SubSeq(ledger', 1, Len(ledger)) = ledger
          /\ LET e == ledger'[Len(ledger')]
             IN /\ e.call = p /\ e.status = "completed"
                /\ e.amount = -amount'[p]
    /\ ~ret'[p] => users' = users /\ ledger' = ledger

TurnedDown(p) == ~ret'[p] /\ users' = users /\ ledger' = ledger

(***************************************************************************)
(* C11 as stated.  A call made alone for an existing user, with no storage *)
(* error, and with any positive whole amount (3 as well as 1 or 2),        *)
(* succeeds exactly when the stored balance is at least the amount; a      *)
(* success leaves the balance lowered by the amount and one completed      *)
(* ledger entry of minus the amount, a failure leaves balance and ledger   *)
(* as they were.                                                           *)
(***************************************************************************)
C11_AnyPositiveAmount ==
    [][\A p \in Procs :
          ( /\ EndsNoError(p)
            /\ amount'[p] > 0 /\ IntOf(amount'[p]) = amount'[p] )
          => SucceedsIffCovered(p)]_vars

(***************************************************************************)
(* C11 as amended.  The same holds of every call of the budget routine     *)
(* with a positive amount and of every call of the shopping routine with   *)
(* amount 1 or 2; the shopping routine turns down every amount of 3 or     *)
(* more, whatever the balance, and stores nothing.                         *)
(***************************************************************************)
C11_BudgetAnyShoppingOneOrTwo ==
    [][\A p \in Procs :
          (EndsNoError(p) /\ amount'[p] > 0) =>
             /\ (variant'[p] = "budget" \/ amount'[p] \in {1 * Unit, 2 * Unit})
                   => SucceedsIffCovered(p)
             /\ (variant'[p] = "shopping" /\ amount'[p] >= 3 * Unit)
                   => TurnedDown(p)]_vars

\* From balance 3 a budget call of 3 credits succeeded and left 0; the
\* budget call of 3 credits that followed was turned down for the balance.
C11_Witness ==
    \E p, q \in Procs :
        /\ Finished(p) /\ Finished(q) /\ faults = 0
        /\ user_id[p] = "u1" /\ user_id[q] = "u1"
        /\ variant[p] = "budget" /\ amount[p] = 3 * Unit /\ ret[p]
        /\ init_balance["u1"] = 3 * Unit
        /\ "u1" \in DOMAIN users /\ users["u1"] = 0
        /\ variant[q] = "budget" /\ amount[q] = 3 * Unit
        /\ ~ret[q] /\ outcome[q] = "InsufficientBalance"
        /\ current_balance[q] = 0

(***************************************************************************)
(* C12.  deduct never raises to its caller: a call turned down for its     *)
(* arguments, for a missing user or for the balance, and a call that met a *)
(* zero-modified decrement, a permanent storage error or a transient error *)
(* on its last attempt, has returned, and returned the one value false,    *)
(* whatever the kind of failure.                                           *)
(***************************************************************************)
LastError(p) == errs[p][Len(errs[p])]

Rejections == {"InvalidArgument", "NotFound", "InsufficientBalance"}

C12_NeverRaises ==
    \A p \in Procs :
        /\ outcome[p] # "Raised"
        /\ ret[p] \in BOOLEAN
        /\ (Returned(p) /\ outcome[p] # "Committed") => ret[p] = FALSE
        /\ outcome[p] \in Rejections => Returned(p)
        /\ errs[p] # <<>> =>
              \/ Returned(p) /\ outcome[p] = "Aborted"
              \/ /\ pc[p] = "Mutating" /\ LastError(p).kind = "transient"
                 /\ attempt[p] \in 1..(max_retries - 1)

\* One call has ended on the ValueError of a zero-modified decrement, the
\* other on a transient error at its third attempt (its caller has not yet
\* left the transaction); both returned false.
C12_Witness ==
    \E p, q \in Procs :
        /\ Finished(p) /\ errs[p] # <<>> /\ LastError(p).kind = "client"
        /\ ~ret[p]
        /\ Returned(q) /\ Len(errs[q]) = max_retries
        /\ \A i \in DOMAIN errs[q] : errs[q][i].kind = "transient"
        /\ attempt[q] = max_retries - 1 /\ ~ret[q]

(***************************************************************************)
(* Mutation attempts: the times a call issued its update_one.  Every error *)
(* met after the pre-check, other than the refusal to start a transaction  *)
(* on an ended session, belongs to one attempt; so does the attempt that   *)
(* got past its update without an error.                                   *)
(***************************************************************************)
FailedAttempts(p) ==
    {i \in DOMAIN errs[p] :
        errs[p][i].at # "Checking" /\ errs[p][i].kind # "ended"}

MutationAttempts(p) ==
    Cardinality(FailedAttempts(p))
      + (IF \/ pc[p] \in {"InsertLedger", "InsertAudit", "Commit"}
            \/ outcome[p] = "Committed"
         THEN 1 ELSE 0)

(***************************************************************************)
(* C13.  In both routines, a call whose mutation met a transient error     *)
(* makes another mutation attempt, and no call makes more than 3; a call   *)
(* whose 3 attempts all met a transient error returns false and leaves no  *)
(* balance, ledger or audit change.                                        *)
(***************************************************************************)
C13_TransientRetried ==
    \A p \in Procs :
        /\ MutationAttempts(p) <= max_retries
        /\ ( /\ Finished(p)
             /\ FailedAttempts(p) # {}
             /\ errs[p][1].kind = "transient" )
           => MutationAttempts(p) >= 2
        /\ ( /\ Finished(p)
             /\ Cardinality(FailedAttempts(p)) = max_retries
             /\ \A i \in DOMAIN errs[p] : errs[p][i].kind = "transient" )
           => ~ret[p] /\ NothingStored(p)

(***************************************************************************)
(* C14.  A non-transient error met during the mutation (the ValueError of  *)
(* a zero-modified decrement, or a storage error without the transient     *)
(* label) is the last thing the call meets: no mutation attempt follows    *)
(* it, the call has returned false on that attempt, and the transaction is *)
(* no longer active and holds no pending write.                            *)
(***************************************************************************)
NonTransient(e) == e.at # "Checking" /\ e.kind \in {"client", "permanent"}

C14_NonTransientNotRetried ==
    \A p \in Procs :
        \A i \in DOMAIN errs[p] :
            NonTransient(errs[p][i]) =>
                /\ i = Len(errs[p])
                /\ pc[p] \notin {"Mutating", "InsertLedger", "InsertAudit", "Commit"}
                /\ Returned(p) /\ ~ret[p] /\ outcome[p] = "Aborted"
                /\ attempt[p] = Cardinality({j \in 1..(i - 1) :
                                     errs[p][j].kind = "transient"})
                /\ txn[p].state # "active"
                /\ txn[p].bal = EmptyDocs
                /\ txn[p].led = <<>> /\ txn[p].aud = <<>>

\* Two shopping calls have ended, one on a storage error without the label
\* at its first update, the other on the ValueError of a zero-modified
\* decrement.
C14_Witness ==
    \E p, q \in Procs :
        /\ variant[p] = "shopping" /\ variant[q] = "shopping"
        /\ Finished(p) /\ errs[p] # <<>>
        /\ LastError(p) = [at |-> "Mutating", kind |-> "permanent"]
        /\ Finished(q) /\ errs[q] # <<>>
        /\ LastError(q) = [at |-> "Mutating", kind |-> "client"]

(***************************************************************************)
(* C15.  A call whose decrement modified zero records has returned false,  *)
(* has not changed the balance, and has left one visible ledger entry with *)
(* status failed, no completed entry and no audit entry.                   *)
(***************************************************************************)
ZeroModified(p) ==
    \E i \in DOMAIN errs[p] : errs[p][i] = [at |-> "Mutating", kind |-> "client"]

C15_FailedEntryPersisted ==
    \A p \in Procs :
        (Finished(p) /\ ZeroModified(p)) =>
            /\ ~ret[p]
            /\ decrements[p] = <<>>
            /\ Cardinality(Entries(p, "failed")) = 1
            /\ Entries(p, "completed") = {}
            /\ Audits(p) = {}

(***************************************************************************)
(* C16.  In every reachable state a visible audit entry written by deduct  *)
(* belongs to a call that returned true, and goes with exactly one         *)
(* completed ledger entry and one applied decrement of that call; a call   *)
(* that returned false has left no audit entry.                            *)
(***************************************************************************)
C16_AuditOnlyOnSuccess ==
    \A p \in Procs :
        /\ Audits(p) # {} =>
              /\ Cardinality(Audits(p)) = 1
              /\ Returned(p) /\ ret[p]
              /\ Cardinality(Entries(p, "completed")) = 1
              /\ Len(decrements[p]) = 1
        /\ (Returned(p) /\ ~ret[p]) => Audits(p) = {}

\* One call has succeeded and its audit entry is visible; the other had
\* inserted its audit entry when its commit failed, returned false, and
\* has left none.
C16_Witness ==
    \E p, q \in Procs :
        /\ Finished(p) /\ ret[p] /\ Cardinality(Audits(p)) = 1
        /\ Finished(q) /\ ~ret[q] /\ ErrorAt(q, {"Commit"})
        /\ Audits(q) = {}

(***************************************************************************)
(* C17.  Every deduct call ends, whatever the store does, in exactly one   *)
(* of three ways: Rejected (a precondition failed: false is returned and   *)
(* nothing was attempted or written), Committed (true is returned) or      *)
(* Aborted for good (false is returned); and it makes at most 3 mutation   *)
(* attempts.                                                               *)
(***************************************************************************)
Rejected(p) ==
    /\ outcome[p] \in Rejections /\ ~ret[p]
    /\ MutationAttempts(p) = 0 /\ errs[p] = <<>> /\ NothingStored(p)

Committed(p) == outcome[p] = "Committed" /\ ret[p]

AbortedFinal(p) == outcome[p] = "Aborted" /\ ~ret[p] /\ errs[p] # <<>>

EndsInOneWay(p) ==
    /\ MutationAttempts(p) <= max_retries
    /\ Returned(p) =>
          Cardinality({k \in {"Rejected", "Committed", "Aborted"} :
              \/ k = "Rejected" /\ Rejected(p)
              \/ k = "Committed" /\ Committed(p)
              \/ k = "Aborted" /\ AbortedFinal(p)}) = 1

C17_Terminates ==
    /\ [](\A p \in Procs : EndsInOneWay(p))
    /\ \A p \in Procs : [](Called(p) => <>Returned(p))

\* One call was rejected, the other was aborted for good at its third
\* mutation attempt.
C17_Witness ==
    \E p, q \in Procs :
        /\ Returned(p) /\ Rejected(p)
        /\ Returned(q) /\ AbortedFinal(q) /\ MutationAttempts(q) = max_retries

(***************************************************************************)
(* C18.  The ledger and the audit log are append-only: every step leaves   *)
(* each entry that was visible before it in place and unchanged, whether   *)
(* the step belongs to a deduction that succeeds, fails, is retried or is  *)
(* aborted.                                                                *)
(***************************************************************************)
IsPrefix(a, b) == Len(a) <= Len(b) /\ SubSeq(b, 1, Len(a)) = a

C18_AppendOnly ==
    [][IsPrefix(ledger, ledger') /\ IsPrefix(audit, audit')]_vars

\* With no storage error injected, one call has committed its ledger and
\* audit entries, the other was retried to its last attempt and aborted,
\* and the first call's entries are the whole ledger and audit log.
C18_Witness ==
    \E p, q \in Procs :
        /\ Finished(p) /\ ret[p]
        /\ Len(ledger) = 1 /\ ledger[1].call = p
        /\ Len(audit) = 1 /\ audit[1].call = p
        /\ Finished(q) /\ ~ret[q] /\ attempt[q] = max_retries - 1
        /\ faults = 0

(***************************************************************************)
(* C19.  When the budget-creation request of a user who is not an admin    *)
(* has finished, the budget record it created exists if and only if the    *)
(* 1-credit deduction made for it returned true.                           *)
(***************************************************************************)
C19_BudgetIffDeducted ==
    \A p \in Procs :
        (creating[p] /\ Finished(p)) => (p \in budgets <=> ret[p])

(***************************************************************************)
(* C20.  A shopping call that opened its session itself, whose first       *)
(* mutation attempt met a transient error and which met no storage error   *)
(* and no zero-modified decrement afterwards, has committed the deduction  *)
(* and returned true: the attempt after the transient error ran in a       *)
(* fresh transaction on a usable session.                                  *)
(***************************************************************************)
RetriedOnce(p) ==
    /\ variant[p] = "shopping"
    /\ owns_session(p)
    /\ errs[p] # <<>>
    /\ errs[p][1].at # "Checking"
    /\ errs[p][1].kind = "transient"
    /\ attempt[p] >= 1

NoErrorAfterFirst(p) ==
    \A i \in DOMAIN errs[p] :
        i > 1 => errs[p][i].kind \notin ErrorKinds \cup {"client"}

C20_RetryCommits ==
    \A p \in Procs :
        (Finished(p) /\ RetriedOnce(p) /\ NoErrorAfterFirst(p))
            => ret[p] /\ Committed(p)

(***************************************************************************)
(* C21.  A budget-creation request changes no credit balance and writes no *)
(* ledger entry: the deduction it makes never commits a decrement and      *)
(* never leaves a ledger entry, completed or failed.                       *)
(***************************************************************************)
C21_CreationNeverCharges ==
    \A p \in Procs :
        creating[p] =>
            /\ decrements[p] = <<>>
            /\ Entries(p, "completed") = {}
            /\ Entries(p, "failed") = {}

(***************************************************************************)
(* C26.  Once the request of a call that returned true is over, the        *)
(* call's decrement, its completed ledger entry and its audit entry are    *)
(* committed: all three are in the store.                                  *)
(***************************************************************************)
C26_TrueMeansCommitted ==
    \A p \in Procs :
        (Finished(p) /\ ret[p]) =>
            /\ decrements[p] # <<>>
            /\ Entries(p, "completed") # {}
            /\ Audits(p) # {}

(***************************************************************************)
(* C28.  Every step the shopping routine takes on a caller-supplied        *)
(* session leaves the session open and commits nothing; the caller's       *)
(* transaction keeps its state and its snapshot, except that it is aborted *)
(* when the server reports a storage error to the routine; the balance for *)
(* the pre-check is read through the caller's transaction, and no write    *)
(* becomes visible outside it.                                             *)
(***************************************************************************)
InRoutine(p) ==
    pc[p] \in {"caller", "Checking", "Mutating", "InsertLedger", "InsertAudit",
               "Commit"}

RoutineStep(p) ==
    /\ InRoutine(p)
    /\ <<pc[p], txn[p], errs[p], attempt[p]>>' # <<pc[p], txn[p], errs[p], attempt[p]>>

ServerAborted(p) ==
    /\ Len(errs'[p]) = Len(errs[p]) + 1
    /\ errs'[p][Len(errs'[p])].kind \in ErrorKinds
    /\ txn'[p].state = "aborted"

LeavesCallerSessionAlone(p) ==
    /\ ended'[p] = ended[p]
    /\ store' = store
    /\ \/ txn'[p].state = txn[p].state /\ txn'[p].snap = txn[p].snap
       \/ ServerAborted(p)
    /\ (pc[p] = "Checking" /\ pc'[p] = "Mutating")
          => current_balance'[p] = View(txn[p])[user_id[p]]

C28_CallerSessionUntouched ==
    [][\A p \in Procs :
          (mongo_session[p] /\ RoutineStep(p)) => LeavesCallerSessionAlone(p)]_vars

\* One call on a caller session has returned true and another one false
\* after an exception; both sessions are open, the first transaction active.
C28_Witness ==
    \E p, q \in Procs :
        /\ mongo_session[p] /\ pc[p] = "returned" /\ ret[p]
        /\ txn[p].state = "active" /\ ~ended[p]
        /\ mongo_session[q] /\ pc[q] = "returned" /\ ~ret[q]
        /\ errs[q] # <<>> /\ ~ended[q]

(***************************************************************************)
(* Claims about the delete and export requests.                            *)
(***************************************************************************)

Over(p) == request[p].at = "over"

\* The request got as far as calling the deduction routine.
Deducting(p) == user_id[p] # ""

\* No other request is about the record this one names.
Alone(p) == \A q \in Procs \ {p} : request[q].id # request[p].id

ListGone(l) == l \notin DOMAIN shopping_lists /\ ItemsOf(shopping_items, l) = {}
ListKept(l) == l \in DOMAIN shopping_lists /\ ItemsOf(shopping_items, l) # {}

(***************************************************************************)
(* C27.  After a delete_list request of the handler new that called the    *)
(* deduction routine, the list and its items are gone if the routine       *)
(* returned true, and both still exist if it returned false.               *)
(***************************************************************************)
C27_DeleteListAllOrNothing ==
    \A p \in Procs :
        ( /\ request[p].route = "new.delete_list"
          /\ Over(p) /\ Deducting(p) /\ Alone(p) )
        => /\ ret[p] => ListGone(request[p].id)
           /\ ~ret[p] => ListKept(request[p].id)

(***************************************************************************)
(* C24.  A request that was answered with the PDF of a shopping list       *)
(* exported a list whose status is 'saved', and 2 credits were deducted    *)
(* from the user for it.                                                   *)
(***************************************************************************)
C24_PdfOnlySavedAndPaid ==
    \A p \in Procs :
        request[p].sent = "pdf" =>
            /\ request[p].status = "saved"
            /\ Charged(p) = 2 * Unit

(***************************************************************************)
(* C29.  Every request is made by current_user, who is not an admin.  A    *)
(* step removes a budget or a shopping list only when the record's         *)
(* user_id is current_user.  A delete request that names a record of       *)
(* another user is refused at its lookup: that step changes no record and  *)
(* no balance, and the request never calls the deduction routine.          *)
(***************************************************************************)
DeleteRoutes == {"delete", "delete_budget", "new.delete_list", "delete_list"}

OfAnotherUser(r) ==
    IF r.route \in {"delete", "delete_budget"}
    THEN budget_user_id[r.id] # current_user
    ELSE r.id \in DOMAIN shopping_lists /\ shopping_lists[r.id].user_id # current_user

RemovesOnlyOwn ==
    /\ \A b \in budgets \ budgets' : budget_user_id[b] = current_user
    /\ \A l \in DOMAIN shopping_lists \ DOMAIN shopping_lists' :
          shopping_lists[l].user_id = current_user

RefusedUntouched(p) ==
    ( /\ request'[p].route \in DeleteRoutes
      /\ OfAnotherUser(request'[p]) )
    => /\ request'[p].sent = "refused"
       /\ user_id'[p] = "" /\ decrements'[p] = <<>>
       /\ request[p].at = "none" =>
             /\ budgets' = budgets
             /\ shopping_lists' = shopping_lists
             /\ shopping_items' = shopping_items
             /\ store' = store

C29_DeletesOnlyOwnRecords ==
    [][RemovesOnlyOwn /\ \A p \in Procs : RefusedUntouched(p)]_vars

\* One delete request was refused for a list of another user while another
\* deleted the user's own budget and paid for it.
C29_Witness ==
    \E p, q \in Procs :
        /\ request[p].route \in {"new.delete_list", "delete_list"}
        /\ OfAnotherUser(request[p]) /\ request[p].sent = "refused"
        /\ request[q].route \in {"delete", "delete_budget"}
        /\ request[q].sent = "deleted" /\ ret[q]
        /\ request[q].id \notin budgets

\* C22: the status of every stored shopping list is 'active' or 'saved'.
C22_StatusActiveOrSaved ==
    \A l \in DOMAIN shopping_lists :
        shopping_lists[l].status \in {"active", "saved"}

\* C23: no list holds two items whose lower-cased names are equal.
C23_NamesUniqueIgnoringCase ==
    \A i, j \in DOMAIN shopping_items :
        /\ i # j
        /\ shopping_items[i].list_id = shopping_items[j].list_id
        => Lower(shopping_items[i].name) # Lower(shopping_items[j].name)

\* C25: once the requests on the items of the lists are over, none of them
\* answered with an error, the stored total_spent of every list is the sum
\* of price * quantity over its items.
C25_TotalSpentIsSumOfItems ==
    (\A p \in Procs : /\ request[p].at \in {"none", "over"}
                      /\ request[p].sent # "error") =>
        \A l \in DOMAIN shopping_lists :
            shopping_lists[l].total_spent = total_spent(shopping_items, l)

=============================================================================
